---- MODULE Spec2Model ----
(***************************************************************************)
(* A model of the AI code reviewer's resumable pipeline                    *)
(* (src/unnamed/part_000): the checkpoint store, the file-by-file          *)
(* scheduler getIndividualFileDiffs, the analysis loop, the comment        *)
(* validator validateCommentLine and the submission batcher                *)
(* postReviewComments.                                                     *)
(*                                                                         *)
(* Eight specifications:                                                   *)
(*   SpecValidate  validateCommentLine as a pure function of a candidate   *)
(*                 list and a parsed diff drawn from bounded sets;         *)
(*   SpecStore     saveProgress and loadProgress on the text of the        *)
(*                 progress file, for sessions drawn from a bounded set;   *)
(*   SpecChunker   splitLargeFilePatch on patch texts drawn from a         *)
(*                 bounded set;                                            *)
(*   SpecReply     getAIResponse's cleaning and decoding of the reply      *)
(*                 text and analyzeCode's loop over it, for reply texts    *)
(*                 drawn from a bounded set;                               *)
(*   SpecJoin      the text getIndividualFileDiffs builds from the         *)
(*                 fragments of its batches, line by line;                 *)
(*   SpecCommands  a process started with the flags of the progress        *)
(*                 commands (handleProgressCommands), or without them;     *)
(*   Spec          a sequence of process runs against one durable          *)
(*                 checkpoint file, each of which may be killed at any     *)
(*                 step;                                                   *)
(*   SpecLive      the last of these runs, from the progress files an      *)
(*                 earlier run can leave, the process taking its steps     *)
(*                 until it ends (weak fairness).                          *)
(***************************************************************************)
EXTENDS Integers, Sequences, FiniteSets, TLC

VARIABLES
    \* ---- SpecValidate: the validator's inputs and result
    vpc,            \* "input" | "validated"
    vComments,      \* the candidate list handed to validateCommentLine
    vDiff,          \* the parsed diff handed to validateCommentLine
    vResult,        \* the list validateCommentLine returned
    \* ---- SpecStore: the progress file as text
    spc,            \* "start" | "saved" | "savedTwice" | "loaded" | "failed"
    sSession,       \* the session handed to saveProgress
    sFile,          \* the progress file: Null or Some(JSON text)
    sFirst,         \* the progress file as the first saveProgress left it
    sLoaded,        \* what loadProgress returned
    \* ---- SpecChunker: the chunker's input and result
    cpc,            \* "input" | "split"
    cPatch,         \* the patch text handed to splitLargeFilePatch
    cChunks,        \* the chunks splitLargeFilePatch returned
    \* ---- SpecReply: analyzeCode over the replies of its units
    apc,            \* "analyze" | "returned" | "thrown"
    aReplies,       \* per unit, the reply: [content, style]
    aUnit,          \* the unit analyzeCode is at (1-based)
    aComments,      \* analyzeCode's comments
    \* ---- SpecJoin: the scheduler's diff text, line by line
    jpc,            \* "loop" | "returned"
    jFiles,         \* the files to process: [filename, patch]
    jI,             \* the batch loop's index (0-based)
    jText,          \* combinedDiff as text
    \* ---- SpecCommands: the progress commands of the command line
    gpc,            \* "start" | "returned" | "main"
    gArgs,          \* process.argv.slice(2), as the set of its flags
    gExport,        \* exported-comments.json: Null or Some(comments)
    gStore,         \* the progress file when the process started
    \* ---- Spec: durable state
    store,          \* the progress file: Null or Some(ReviewProgress)
    \* ---- Spec: one process run (volatile; lost when the process dies)
    pc,             \* the run's position
    pr,             \* the run's PRDetails: [repository, pull_number]
    localTesting,   \* process.env.LOCAL_TESTING === 'true'
    progress,       \* getIndividualFileDiffs' local `progress`
    shouldResume,   \* getIndividualFileDiffs' local `shouldResume`
    files,          \* the listing octokit.pulls.listFiles returned
    filesToProcess, \* getIndividualFileDiffs' local `filesToProcess`
    i,              \* the batch loop's index (0-based, as in the code)
    k,              \* the position inside the current batch (1-based)
    batchResults,   \* the fragments of the current batch, in batch order
    combinedDiff,   \* the diff text so far: a sequence of fragments
    diff,           \* main's `diff`
    parsedDiff,     \* main's `parsedDiff`
    units,          \* analyzeCode: the (file, chunk) pairs still to analyse
    comments,       \* analyzeCode's `comments`
    validComments,  \* createReviewComment's `validComments`
    postI,          \* postReviewComments' loop index (0-based)
    successCount,   \* postReviewComments' successCount
    excludePatterns,\* main's excludePatterns, <<>> until line 917 reads the input
    \* ---- Spec: observation (history) variables, never read by the program
    run,            \* number of runs started so far
    startStore,     \* the progress file when the run started
    incremental,    \* main's diff is the one getIncrementalChanges returned
    loaded,         \* what loadProgress returned at the start of the scheduler
    fetched,        \* files the scheduler processed in this run, in order
    calls,          \* createReview calls of this run: [comments, outcome]
    validatedAs,    \* the list validateCommentLine returned in this run
    postedEarlier,  \* <<target, comment>> pairs earlier runs submitted successfully
    analysedEarlier,\* <<PRDetails, path>> of the files ended runs sent to the analysis
    crashes,        \* number of runs that were killed
    ioFailures      \* checkpoint reads, writes and deletes that failed in this run

vvars == <<vpc, vComments, vDiff, vResult>>
svars == <<spc, sSession, sFile, sFirst, sLoaded>>
cvars == <<cpc, cPatch, cChunks>>
\* the variables of the specifications of single functions
avars == <<apc, aReplies, aUnit, aComments>>

jvars == <<jpc, jFiles, jI, jText>>
gvars == <<gpc, gArgs, gExport, gStore>>

fvars == <<vvars, svars, cvars, avars, jvars, gvars>>
rvars == <<pc, pr, localTesting, progress, shouldResume, files, filesToProcess,
           i, k, batchResults, combinedDiff, diff, parsedDiff, units, comments,
           validComments, postI, successCount, excludePatterns>>
hvars == <<run, startStore, incremental, loaded, fetched, calls, validatedAs, postedEarlier,
           analysedEarlier,
           crashes, ioFailures>>
vars == <<fvars, store, rvars, hvars>>

----------------------------------------------------------------------------
(* Generic helpers *)

Null == <<>>
Some(x) == <<x>>

Range(s) == {s[n] : n \in 1..Len(s)}

IsPrefix(s, t) == Len(s) <= Len(t) /\ SubSeq(t, 1, Len(s)) = s

Min(a, b) == IF a <= b THEN a ELSE b

\* Array.prototype.slice(from, to), 0-based and end-exclusive
Slice(s, from, to) == SubSeq(s, from + 1, Min(to, Len(s)))

\* All sequences over S of length at most n
SeqUpTo(S, n) == UNION {[1..m -> S] : m \in 0..n}

----------------------------------------------------------------------------
(* Bounds of the model *)

MaxEntries == 2     \* file entries per parsed diff (SpecValidate)
MaxCands == 3       \* candidate comments per validateCommentLine call (SpecValidate)

----------------------------------------------------------------------------
(* The parsed diff (parse-diff's File / Chunk / Change) and review comments *)

Paths == {"a", "b"}

\* A property a change record does not carry ('ln' in change is false)
Absent == 0

\* parse-diff change records: AddChange {type, ln}, DeleteChange {type, ln},
\* NormalChange {type, ln1, ln2}. For an addition ln is the new-file line, for a
\* deletion the old-file line; ln1 / ln2 are a context line's old / new line.
AddChange(n) == [type |-> "add", ln |-> n, ln1 |-> Absent, ln2 |-> Absent]
DelChange(n) == [type |-> "del", ln |-> n, ln1 |-> Absent, ln2 |-> Absent]
NormalChange(o, n) == [type |-> "normal", ln |-> Absent, ln1 |-> o, ln2 |-> n]

Chunk(cs) == [changes |-> cs]

\* The chunk lists a file entry of the fixture may carry: no chunk (a
\* placeholder fragment), one record of each type, a line present only as a
\* deletion, a match in the second record of a chunk, a match in the second
\* chunk.
ChunkLists ==
    { <<>>,
      <<Chunk(<<AddChange(1)>>)>>,
      <<Chunk(<<DelChange(2)>>)>>,
      <<Chunk(<<NormalChange(1, 2)>>)>>,
      <<Chunk(<<AddChange(1), DelChange(2)>>)>>,
      <<Chunk(<<AddChange(1)>>), Chunk(<<AddChange(2)>>)>> }

\* (from, to) of a file entry: a modified file, or b renamed to a
PathPairs == {<<p, p>> : p \in Paths} \cup {<<"b", "a">>}

FileEntries ==
    {[from |-> pp[1], to |-> pp[2], chunks |-> cl] : pp \in PathPairs, cl \in ChunkLists}

\* ReviewComment {body, path, line}; the body plays no part in any decision
\* of the code and is left out. Line 3 is in no change record of the fixture.
ReviewComment(p, n) == [path |-> p, line |-> n]

CandidateLines == 1..3

CandidateComments == {ReviewComment(p, n) : p \in Paths, n \in CandidateLines}

----------------------------------------------------------------------------
(* validateCommentLine, part_000 lines 623-664 *)

\* Array.prototype.find: the index of the first file entry whose to or from
\* is the comment's path, 0 when there is none
FindFile(comment, pd) ==
    LET hits == {n \in 1..Len(pd) : pd[n].to = comment.path \/ pd[n].from = comment.path}
    IN  IF hits = {} THEN 0 ELSE CHOOSE n \in hits : \A m \in hits : n <= m

\* ChangeMatches with the context branch's line comparison lost: any context
\* record of the file matches.
ChangeMatchesAnyContext(change, comment) ==
    \/ change.type = "add" /\ change.ln # Absent /\ change.ln = comment.line
    \/ change.type = "del" /\ change.ln # Absent /\ change.ln = comment.line
    \/ change.type = "normal" /\ change.ln1 # Absent /\ change.ln2 # Absent

\* one pass of the inner if / else-if chain
ChangeMatches(change, comment) ==
    \/ change.type = "add" /\ change.ln # Absent /\ change.ln = comment.line
    \/ change.type = "del" /\ change.ln # Absent /\ change.ln = comment.line
    \/ change.type = "normal" /\ change.ln1 # Absent /\ change.ln2 # Absent
         /\ (change.ln1 = comment.line \/ change.ln2 = comment.line)

\* the two nested loops with their breaks: lineExists
LineExists(fileInDiff, comment) ==
    \E c \in 1..Len(fileInDiff.chunks) :
        \E n \in 1..Len(fileInDiff.chunks[c].changes) :
            ChangeMatches(fileInDiff.chunks[c].changes[n], comment)

KeepsComment(comment, pd) ==
    LET f == FindFile(comment, pd)
    IN  f # 0 /\ LineExists(pd[f], comment)

\* validateCommentLine with the kept comments returned newest first
RECURSIVE validateCommentLineNewestFirst(_, _)
validateCommentLineNewestFirst(cs, pd) ==
    IF cs = <<>> THEN <<>>
    ELSE validateCommentLineNewestFirst(Tail(cs), pd)
         \o (IF KeepsComment(Head(cs), pd) THEN <<Head(cs)>> ELSE <<>>)

\* lines 623-664: the candidates for which the file is found and the line
\* exists, pushed in the order of the loop
validateCommentLine(cs, pd) ==
    LET keep(c) == KeepsComment(c, pd) IN SelectSeq(cs, keep)

----------------------------------------------------------------------------
(* The pull requests, their files and the program's constants *)

MaxRuns == 2        \* process runs per behaviour
MaxIOFailures == 1  \* failed checkpoint reads, writes and deletes per run

\* const batchSize = 10 of getIndividualFileDiffs, scaled to the model's
\* three-file listings so that a run has more than one batch
SchedulerBatchSize == 2

\* files.slice(0, 20) under LOCAL_TESTING, scaled likewise
LocalTestingLimit == 2

\* const batchSize = 5 of postReviewComments, scaled likewise
PostBatchSize == 2

\* the waits of postReviewComments, in milliseconds
BatchDelay == 3000
RateLimitCooldown == 10000

\* PRDetails reduced to the session key: `${owner}/${repo}` and pull_number
Targets ==
    { [repository |-> "o/r", pull_number |-> 1],
      [repository |-> "o/r", pull_number |-> 2] }

\* The files a pull request may list, in the API's order. "a" carries a patch
\* above the oversized threshold, "b" carries no patch (binary), "c" a normal
\* patch.
FileNames == <<"a", "b", "c">>

\* if (patchLines > 15000), line 309
OversizedThreshold == 15000

\* file.patch.split('\n').length of the model's files: "a" is above the
\* threshold, "c" exactly at it; Null for "b", which has no patch
PatchLineCount(f) ==
    CASE f = "a" -> Some(20000)
      [] f = "b" -> Null
      [] OTHER   -> Some(15000)

\* PatchKind with the comparison turned into >=
PatchKindFromThreshold(f) ==
    IF PatchLineCount(f) = Null THEN "none"
    ELSE IF PatchLineCount(f)[1] >= OversizedThreshold THEN "oversized"
    ELSE "normal"

\* lines 305-309: which branch of the callback a file takes
PatchKind(f) ==
    IF PatchLineCount(f) = Null THEN "none"
    ELSE IF PatchLineCount(f)[1] > OversizedThreshold THEN "oversized"
    ELSE "normal"

\* every listing octokit.pulls.listFiles may return: a subsequence of FileNames
RECURSIVE SubSeqs(_)
SubSeqs(s) ==
    IF s = <<>> THEN {<<>>}
    ELSE LET rest == SubSeqs(Tail(s))
         IN  rest \cup {<<Head(s)>> \o t : t \in rest}

Listings == SubSeqs(FileNames)

----------------------------------------------------------------------------
(* The checkpoint store, part_000 lines 61-118 *)

\* ReviewProgress without its timestamp, which no decision of the code reads
createInitialProgress(prNumber, repository, totalFiles) ==
    [ prNumber       |-> prNumber,
      repository     |-> repository,
      processedFiles |-> <<>>,
      allComments    |-> <<>>,
      currentBatch   |-> 0,
      totalFiles     |-> totalFiles,
      completed      |-> FALSE ]

\* loadProgress: the stored record, or null when there is none or the read
\* fails (ok = FALSE)
loadProgress(ok) == IF ok THEN store ELSE Null

\* saveProgress with the write lost: the file is never touched
saveProgressNeverWrites(p, ok) == store

\* saveProgress(progress): the file after the call; a failed write is caught
\* and leaves the file as it was
saveProgress(p, ok) == IF ok THEN Some(p) ELSE store

\* clearProgress as saveProgress, for a store st
clearProgress(st, ok) == IF ok THEN Null ELSE st

\* A read, write or delete of the file may fail (ok = FALSE) when it touches
\* the disk; a run sees at most MaxIOFailures failures.
IOOutcomes(touches) ==
    IF touches /\ ioFailures < MaxIOFailures THEN BOOLEAN ELSE {TRUE}

Failed(ok) == IF ok THEN 0 ELSE 1

----------------------------------------------------------------------------
(* Diff text, as the sequence of its fragments *)

\* A fragment is what one `diff --git` header and the lines under it parse to:
\* the path of the header and the chunks of the hunks under it. The manifest of
\* reconstructDiffFromProgress is text without a header.
Fragment(kind, path, chunks) == [kind |-> kind, path |-> path, chunks |-> chunks]

\* reconstructDiffFromProgress, lines 401-405: two comment lines
reconstructDiffFromProgress(p) == <<Fragment("manifest", "#", <<>>)>>

\* what the chunks splitLargeFilePatch returns for the oversized file of the
\* model parse to: two re-headered chunks, each holding one hunk of the patch
OversizedFileFragments(filename) ==
    << Fragment("chunk", filename, <<Chunk(<<AddChange(1)>>)>>),
       Fragment("chunk", filename, <<Chunk(<<AddChange(2)>>)>>) >>

\* FileFragments with the catch branch's return lost: a file whose processing
\* throws leaves nothing in the diff
FileFragmentsWithoutPlaceholder(filename, thrown) ==
    IF thrown THEN <<>>
    ELSE CASE PatchKind(filename) = "oversized" -> OversizedFileFragments(filename)
           [] PatchKind(filename) = "normal" ->
                <<Fragment("patch", filename, <<Chunk(<<AddChange(1)>>)>>)>>
           [] OTHER -> <<Fragment("placeholder", filename, <<>>)>>

\* the value one batch.map callback returns (lines 303-359), by what happened:
\* "thrown" is the catch branch
FileFragments(filename, thrown) ==
    IF thrown THEN <<Fragment("error", filename, <<>>)>>
    ELSE CASE PatchKind(filename) = "oversized" -> OversizedFileFragments(filename)
           [] PatchKind(filename) = "normal" ->
                <<Fragment("patch", filename, <<Chunk(<<AddChange(1)>>)>>)>>
           [] OTHER -> <<Fragment("placeholder", filename, <<>>)>>

\* parseDiff with the manifest's lines taken for a file
RECURSIVE parseDiffManifestAsFile(_)
parseDiffManifestAsFile(text) ==
    IF text = <<>> THEN <<>>
    ELSE <<[from |-> Head(text).path, to |-> Head(text).path,
            chunks |-> Head(text).chunks]>>
         \o parseDiffManifestAsFile(Tail(text))

\* parseDiff (parse-diff): one file entry per `diff --git` header; text before
\* the first header yields nothing
RECURSIVE parseDiff(_)
parseDiff(text) ==
    IF text = <<>> THEN <<>>
    ELSE (IF Head(text).kind = "manifest" THEN <<>>
          ELSE <<[from |-> Head(text).path, to |-> Head(text).path,
                  chunks |-> Head(text).chunks]>>)
         \o parseDiff(Tail(text))

----------------------------------------------------------------------------
(* The analysis loop, lines 479-499 and 602-620 *)

\* the (file, chunk) pairs analyzeCode visits, in order
RECURSIVE AnalysisUnitsFrom(_, _)
AnalysisUnitsFrom(pd, f) ==
    IF f > Len(pd) THEN <<>>
    ELSE (IF pd[f].to = "/dev/null" THEN <<>>
          ELSE [c \in 1..Len(pd[f].chunks) |-> <<f, c>>])
         \o AnalysisUnitsFrom(pd, f + 1)

AnalysisUnits(pd) == AnalysisUnitsFrom(pd, 1)

\* what getAIResponse may return for one chunk: null, or the decoded reviews
\* as the list of their line numbers
AIResponses == {Null, Some(<<>>), Some(<<1>>), Some(<<2>>)}

\* createComment(file, chunk, aiResponses)
createComment(file, aiResponses) ==
    [n \in 1..Len(aiResponses) |-> ReviewComment(file.to, aiResponses[n])]

\* analyzeCode's loop over the units todo, replies[n] being the reply to the
\* n-th of them: a null reply adds nothing
RECURSIVE analyzeFrom(_, _, _, _)
analyzeFrom(pd, todo, replies, n) ==
    IF n > Len(todo) THEN <<>>
    ELSE (IF replies[n] = Null THEN <<>>
          ELSE createComment(pd[todo[n][1]], replies[n][1]))
         \o analyzeFrom(pd, todo, replies, n + 1)

analyzeCode(pd, todo, replies) == analyzeFrom(pd, todo, replies, 1)

----------------------------------------------------------------------------
(* getIndividualFileDiffs, lines 215-398 *)

\* lines 226-229
ShouldResume(p, target) ==
    /\ p # Null
    /\ p[1].prNumber = target.pull_number
    /\ p[1].repository = target.repository
    /\ ~p[1].completed

\* SessionFor with the resume test lost: every run starts from a new record
SessionForAlwaysFresh(resume, p, target, listing) ==
    createInitialProgress(target.pull_number, target.repository, Len(listing))

\* lines 257-260: the session the run works on
SessionFor(resume, p, target, listing) ==
    IF ~resume \/ p = Null
    THEN createInitialProgress(target.pull_number, target.repository, Len(listing))
    ELSE p[1]

\* lines 263-271: the worklist, and totalFiles, under LOCAL_TESTING
Worklist(listing, testing) ==
    IF testing THEN Slice(listing, 0, LocalTestingLimit) ELSE listing

\* RemainingFiles with the filter lost: a resumed run takes the whole worklist
RemainingFilesUnfiltered(worklist, resume, p) == worklist

\* lines 274-279: the files still to process
RemainingFiles(worklist, resume, p) ==
    LET notDone(f) == f \notin Range(p.processedFiles)
    IN  IF resume THEN SelectSeq(worklist, notDone) ELSE worklist

\* ShouldMarkCompleted with the size test lost
ShouldMarkCompletedAlways(p) == TRUE

\* line 380
ShouldMarkCompleted(p) == Len(p.processedFiles) >= p.totalFiles

\* Batch with the slice's start lost: every batch starts at the first file
BatchFromStart == Slice(filesToProcess, 0, i + SchedulerBatchSize)

\* line 296: the current batch
Batch == Slice(filesToProcess, i, i + SchedulerBatchSize)

\* MoreBatches always false: the loop ends after its first batch
MoreBatchesNever == FALSE

\* line 372, and the loop test of line 295 after i += batchSize
MoreBatches == i + SchedulerBatchSize < Len(filesToProcess)

\* line 297
BatchNumber == progress[1].currentBatch + (i \div SchedulerBatchSize) + 1

\* the values of the run's variables when no process is running
Volatile ==
    /\ pc = "idle" /\ pr = Null /\ localTesting = FALSE /\ progress = Null
    /\ shouldResume = FALSE /\ files = <<>> /\ filesToProcess = <<>>
    /\ i = 0 /\ k = 0 /\ batchResults = <<>> /\ combinedDiff = <<>>
    /\ diff = <<>> /\ parsedDiff = <<>> /\ units = <<>> /\ comments = <<>>
    /\ validComments = <<>> /\ postI = 0 /\ successCount = 0
    /\ excludePatterns = <<>>
    /\ startStore = Null /\ incremental = FALSE /\ loaded = Null /\ fetched = <<>>
    /\ calls = <<>> /\ validatedAs = Null /\ ioFailures = 0

\* the scheduler's locals once it has returned
SchedulerReturned(text) ==
    /\ diff' = text
    /\ pc' = "main"
    /\ i' = 0 /\ k' = 0 /\ batchResults' = <<>> /\ combinedDiff' = <<>>

\* eventData.action, lines 864-870: the two actions main handles and one it
\* does not
EventActions == {"opened", "synchronize", "closed"}

\* lines 870-901: where main goes for its diff
AfterEvent(action) ==
    CASE action = "opened"      -> "begin"
      [] action = "synchronize" -> "incremental"
      [] OTHER                  -> "done"

\* A process starts: main() up to the branch on the event's action.
StartRun ==
    /\ pc = "idle"
    /\ gpc \in {"idle", "main"}
    /\ run < MaxRuns
    /\ \E target \in Targets, testing \in BOOLEAN, action \in EventActions :
           /\ pr' = target
           /\ localTesting' = testing
           /\ pc' = AfterEvent(action)
    /\ run' = run + 1
    /\ startStore' = store
    /\ UNCHANGED <<fvars, store, progress, shouldResume, files, filesToProcess, i, k,
                   batchResults, combinedDiff, diff, parsedDiff, units, comments,
                   validComments, postI, successCount, excludePatterns, incremental, loaded, fetched,
                   calls, validatedAs, postedEarlier, analysedEarlier, crashes, ioFailures>>

\* lines 1004-1009: the fragment of one file of the comparison; the patch is
\* taken whole, whatever its size
IncrementalFragments(filename) ==
    CASE PatchKind(filename) = "oversized" ->
            <<Fragment("patch", filename,
                       <<Chunk(<<AddChange(1)>>), Chunk(<<AddChange(2)>>)>>)>>
      [] PatchKind(filename) = "normal" ->
            <<Fragment("patch", filename, <<Chunk(<<AddChange(1)>>)>>)>>
      [] OTHER -> <<Fragment("placeholder", filename, <<>>)>>

\* comparison.files of the model's pushes: no file, or a file without patch
\* and one with a patch
Comparisons == {<<>>, <<"b", "c">>}

\* lines 990-1020: the text getIncrementalChanges builds from comparison.files
RECURSIVE IncrementalText(_)
IncrementalText(listing) ==
    IF listing = <<>> THEN <<>>
    ELSE IncrementalFragments(Head(listing)) \o IncrementalText(Tail(listing))

\* main with an empty comparison treated as a failed one
AfterComparisonEmptyFallsBack(text) == IF text = <<>> THEN "begin" ELSE "main"

\* lines 881-887: getIncrementalChanges has returned its text, whatever it
\* is, and main goes on to the test of the diff at line 904
AfterComparison(text) == "main"

\* getIncrementalChanges returns (lines 980-1020): the session and the
\* progress file are not touched
IncrementalChanges ==
    /\ pc = "incremental"
    /\ \E listing \in Comparisons :
           /\ diff' = IncrementalText(listing)
           /\ pc' = AfterComparison(IncrementalText(listing))
    /\ incremental' = TRUE
    /\ UNCHANGED <<fvars, store, pr, localTesting, progress, shouldResume, files,
                   filesToProcess, i, k, batchResults, combinedDiff, parsedDiff, units,
                   comments, validComments, postI, successCount, excludePatterns, run, startStore,
                   loaded, fetched, calls, validatedAs, postedEarlier, analysedEarlier, crashes,
                   ioFailures>>

\* compareCommits throws, getIncrementalChanges rethrows (lines 1021-1024) and
\* main falls back to getIndividualFileDiffs (lines 886-894)
IncrementalFails ==
    /\ pc = "incremental"
    /\ pc' = "begin"
    /\ UNCHANGED <<fvars, store, pr, localTesting, progress, shouldResume, files,
                   filesToProcess, i, k, batchResults, combinedDiff, diff, parsedDiff,
                   units, comments, validComments, postI, successCount, excludePatterns, hvars>>

\* lines 224-239: load the checkpoint, decide whether to resume, clear a
\* record that is not resumed
BeginSession ==
    /\ pc = "begin"
    /\ \E loadOk \in IOOutcomes(store # Null) :
         LET p == loadProgress(loadOk)
             resume == ShouldResume(p, pr)
         IN  \E clearOk \in IOOutcomes(~resume /\ p # Null) :
               /\ progress' = p
               /\ shouldResume' = resume
               /\ store' = IF ~resume /\ p # Null THEN clearProgress(store, clearOk)
                           ELSE store
               /\ loaded' = p
               /\ ioFailures' = ioFailures + Failed(loadOk) + Failed(clearOk)
               /\ ioFailures' <= MaxIOFailures
    /\ pc' = "list"
    /\ UNCHANGED <<fvars, pr, localTesting, files, filesToProcess, i, k, batchResults,
                   combinedDiff, diff, parsedDiff, units, comments, validComments,
                   postI, successCount, excludePatterns, run, startStore, incremental, fetched, calls, validatedAs, postedEarlier, analysedEarlier, crashes>>

\* lines 243-248 throwing, caught at lines 389-397
ListFilesThrows ==
    /\ pc = "list"
    /\ \E saveOk \in IOOutcomes(progress # Null) :
           /\ store' = IF progress # Null THEN saveProgress(progress[1], saveOk)
                       ELSE store
           /\ ioFailures' = ioFailures + Failed(saveOk)
    /\ SchedulerReturned(<<>>)
    /\ UNCHANGED <<fvars, pr, localTesting, progress, shouldResume, files,
                   filesToProcess, parsedDiff, units, comments, validComments, postI, successCount, excludePatterns,
                   run, startStore, incremental, loaded, fetched, calls, validatedAs, postedEarlier, analysedEarlier, crashes>>

\* lines 243-291: the listing arrives; set up the session and the worklist
ListFiles ==
    /\ pc = "list"
    /\ \E listing \in Listings :
         LET session == SessionFor(shouldResume, progress, pr, listing)
             worklist == Worklist(listing, localTesting)
             p == IF localTesting THEN [session EXCEPT !.totalFiles = Len(worklist)]
                  ELSE session
             todo == RemainingFiles(worklist, shouldResume, p)
         IN  /\ files' = listing
             /\ IF listing = <<>>
                THEN \* lines 252-255
                     /\ SchedulerReturned(<<>>)
                     /\ UNCHANGED <<progress, filesToProcess>>
                ELSE /\ progress' = Some(p)
                     /\ filesToProcess' = todo
                     /\ IF todo = <<>>
                        THEN \* lines 282-285
                             SchedulerReturned(reconstructDiffFromProgress(p))
                        ELSE /\ combinedDiff' = IF shouldResume
                                                THEN reconstructDiffFromProgress(p)
                                                ELSE <<>>
                             /\ i' = 0 /\ k' = 1 /\ batchResults' = <<>>
                             /\ pc' = "file"
                             /\ UNCHANGED diff
    /\ UNCHANGED <<fvars, store, pr, localTesting, shouldResume, parsedDiff, units,
                   comments, validComments, postI, successCount, excludePatterns, hvars>>

\* lines 302-359 up to the push: one file of the batch is turned into its
\* fragment (or, when its processing throws, into the error placeholder) and
\* appended to processedFiles
ProcessFile ==
    /\ pc = "file"
    /\ LET file == Batch[k]
       IN  \E thrown \in IF PatchKind(file) = "oversized" THEN BOOLEAN ELSE {FALSE} :
             /\ batchResults' = batchResults \o FileFragments(file, thrown)
             /\ progress' = Some([progress[1] EXCEPT
                                    !.processedFiles = Append(@, file)])
             /\ fetched' = Append(fetched, file)
    /\ pc' = "fileSave"
    /\ UNCHANGED <<fvars, store, pr, localTesting, shouldResume, files, filesToProcess,
                   i, k, combinedDiff, diff, parsedDiff, units, comments, validComments,
                   postI, successCount, excludePatterns, run, startStore, incremental, loaded, calls, validatedAs, postedEarlier, analysedEarlier, crashes,
                   ioFailures>>

\* the saveProgress that follows each push (lines 320, 330, 344, 355)
SaveAfterFile ==
    /\ pc = "fileSave"
    /\ \E saveOk \in IOOutcomes(TRUE) :
           /\ store' = saveProgress(progress[1], saveOk)
           /\ ioFailures' = ioFailures + Failed(saveOk)
    /\ IF k < Len(Batch)
       THEN /\ k' = k + 1
            /\ pc' = "file"
       ELSE /\ k' = k
            /\ pc' = "batchEnd"
    /\ UNCHANGED <<fvars, pr, localTesting, progress, shouldResume, files,
                   filesToProcess, i, batchResults, combinedDiff, diff, parsedDiff,
                   units, comments, validComments, postI, successCount, excludePatterns, run, startStore, incremental, loaded,
                   fetched, calls, validatedAs, postedEarlier, analysedEarlier, crashes>>

\* lines 363-369: the batch has joined; append its fragments, record the batch
\* (the text of the fragments and its line boundaries are those of SpecJoin)
BatchEnd ==
    /\ pc = "batchEnd"
    /\ combinedDiff' = combinedDiff \o batchResults
    /\ batchResults' = <<>>
    /\ LET p == [progress[1] EXCEPT !.currentBatch = BatchNumber]
       IN  /\ progress' = Some(p)
           /\ \E saveOk \in IOOutcomes(TRUE) :
                  /\ store' = saveProgress(p, saveOk)
                  /\ ioFailures' = ioFailures + Failed(saveOk)
    /\ pc' = IF MoreBatches THEN "delay" ELSE "finish"
    /\ UNCHANGED <<fvars, pr, localTesting, shouldResume, files, filesToProcess, i, k,
                   diff, parsedDiff, units, comments, validComments, postI, successCount, excludePatterns, run,
                   startStore, incremental, loaded, fetched, calls, validatedAs, postedEarlier, analysedEarlier, crashes>>

\* lines 372-376: the wait between two batches, then the loop's i += batchSize
InterBatchDelay ==
    /\ pc = "delay"
    /\ i' = i + SchedulerBatchSize
    /\ k' = 1
    /\ pc' = "file"
    /\ UNCHANGED <<fvars, store, pr, localTesting, progress, shouldResume, files,
                   filesToProcess, batchResults, combinedDiff, diff, parsedDiff, units,
                   comments, validComments, postI, successCount, excludePatterns, hvars>>

\* lines 379-388: mark the session completed, return the diff
FinishScheduler ==
    /\ pc = "finish"
    /\ IF ShouldMarkCompleted(progress[1])
       THEN LET p == [progress[1] EXCEPT !.completed = TRUE]
            IN  /\ progress' = Some(p)
                /\ \E saveOk \in IOOutcomes(TRUE) :
                       /\ store' = saveProgress(p, saveOk)
                       /\ ioFailures' = ioFailures + Failed(saveOk)
       ELSE UNCHANGED <<progress, store, ioFailures>>
    /\ SchedulerReturned(combinedDiff)
    /\ UNCHANGED <<fvars, pr, localTesting, shouldResume, files, filesToProcess,
                   parsedDiff, units, comments, validComments, postI, successCount, excludePatterns, run, startStore, incremental,
                   loaded, fetched, calls, validatedAs, postedEarlier, analysedEarlier, crashes>>

----------------------------------------------------------------------------
(* main after the diff is built, lines 904-956; createReviewComment, lines
   778-799; postReviewComments, lines 667-735 *)

\* CommentsToPost with the validation skipped: the candidates are posted as
\* they come
CommentsToPostUnvalidated(candidates, pd) == candidates

\* line 787: the comments createReviewComment hands to postReviewComments
CommentsToPost(candidates, pd) == validateCommentLine(candidates, pd)

\* PostBatch with the loop index lost: every call carries the first batch
PostBatchFirstOnly == Slice(validComments, 0, PostBatchSize)

\* line 698: the batch of one createReview call
PostBatch == Slice(validComments, postI, postI + PostBatchSize)

\* lines 708-723: the wait that follows a createReview call, in milliseconds
WaitAfter(outcome, more) ==
    CASE outcome = "ok" -> IF more THEN BatchDelay ELSE 0
      [] outcome = "rateLimit" -> RateLimitCooldown
      [] OTHER -> 0

\* AfterBatch with a failed batch tried again
AfterBatchRetrying(outcome) ==
    IF outcome = "ok" THEN postI + PostBatchSize ELSE postI

\* line 697, i += batchSize: the loop index after a createReview call; the
\* catch block of lines 715-726 neither breaks nor rewinds the loop
AfterBatch(outcome) == postI + PostBatchSize

\* createReviewComment (lines 785-795) up to the first createReview call
ReviewComments(candidates) ==
    LET valid == CommentsToPost(candidates, parsedDiff)
    IN  /\ validComments' = valid
        /\ validatedAs' = Some(validateCommentLine(candidates, parsedDiff))
        /\ pc' = IF valid = <<>> THEN "done" ELSE "post"

\* core.getInput("exclude").split(",").map(s => s.trim()), lines 917-920: the
\* empty input gives the one pattern ""
ExcludeInputs == {<<"">>, <<"c">>}

\* minimatch(path, pattern) for the patterns of the model, which hold no
\* wildcard: the empty pattern matches the empty path only
minimatch(path, pattern) == path = pattern

\* line 923: excludePatterns.some(pattern => minimatch(file.to ?? "", pattern))
Excluded(file, patterns) ==
    \E n \in 1..Len(patterns) : minimatch(file.to, patterns[n])

\* filteredDiff with the filter lost
filteredDiffUnfiltered(pd, patterns) == pd

\* lines 922-926: main's filteredDiff
filteredDiff(pd, patterns) ==
    SelectSeq(pd, LAMBDA file : ~Excluded(file, patterns))

\* lines 904-940: an empty diff, an empty parse, an empty filtered diff or an
\* empty analysis ends the run; the scheduler's locals are gone
MainParse ==
    /\ pc = "main"
    /\ progress' = Null /\ shouldResume' = FALSE
    /\ files' = <<>> /\ filesToProcess' = <<>>
    /\ LET pd == parseDiff(diff)
       IN  IF diff = <<>> \/ pd = <<>>
           THEN /\ pc' = "done"
                /\ UNCHANGED <<parsedDiff, units, excludePatterns>>
           ELSE \E patterns \in ExcludeInputs :
                  LET todo == AnalysisUnits(filteredDiff(pd, patterns))
                  IN  /\ parsedDiff' = pd
                      /\ excludePatterns' = patterns
                      /\ units' = todo
                      /\ pc' = IF todo = <<>> THEN "done" ELSE "analyze"
    /\ UNCHANGED <<fvars, store, pr, localTesting, i, k, batchResults, combinedDiff,
                   diff, comments, validComments, postI, successCount, hvars>>

\* analyzeCode (lines 479-499): every chunk of every file is sent to the model
\* in turn, replies[n] being getAIResponse's result for the n-th chunk; main
\* then goes on to createReviewComment (lines 942-954)
Analyze ==
    /\ pc = "analyze"
    /\ \E replies \in [1..Len(units) -> AIResponses] :
         LET all == analyzeCode(filteredDiff(parsedDiff, excludePatterns), units, replies)
         IN  /\ comments' = all
             /\ units' = <<>>
             /\ IF all = <<>>
                THEN /\ pc' = "done"
                     /\ UNCHANGED <<validComments, validatedAs>>
                ELSE ReviewComments(all)
    /\ UNCHANGED <<fvars, store, pr, localTesting, progress, shouldResume, files,
                   filesToProcess, i, k, batchResults, combinedDiff, diff, parsedDiff,
                   postI, successCount, excludePatterns, run, startStore, incremental, loaded, fetched, calls, postedEarlier, analysedEarlier, crashes,
                   ioFailures>>

\* getAIResponse returns a value that is not a list for some unit: createComment
\* throws (line 610), analyzeCode rejects and main's catch takes over
AnalyzeThrows ==
    /\ pc = "analyze"
    /\ pc' = "failed"
    /\ UNCHANGED <<fvars, store, pr, localTesting, progress, shouldResume, files,
                   filesToProcess, i, k, batchResults, combinedDiff, diff, parsedDiff,
                   units, comments, validComments, postI, successCount, excludePatterns, hvars>>

\* lines 673-688: merge the comments into the stored session; under
\* LOCAL_TESTING nothing is posted
PostBegin ==
    /\ pc = "post"
    /\ \E loadOk \in IOOutcomes(store # Null) :
         LET p == loadProgress(loadOk)
         IN  \E saveOk \in IOOutcomes(p # Null) :
               /\ store' = IF p # Null
                           THEN saveProgress([p[1] EXCEPT
                                    !.allComments = @ \o validComments], saveOk)
                           ELSE store
               /\ ioFailures' = ioFailures + Failed(loadOk) + Failed(saveOk)
               /\ ioFailures' <= MaxIOFailures
    /\ postI' = 0
    /\ successCount' = 0
    /\ pc' = IF localTesting THEN "done" ELSE "submit"
    /\ UNCHANGED <<fvars, pr, localTesting, progress, shouldResume, files,
                   filesToProcess, i, k, batchResults, combinedDiff, diff, parsedDiff,
                   units, comments, validComments, excludePatterns, run, startStore, incremental, loaded, fetched,
                   calls, validatedAs, postedEarlier, analysedEarlier, crashes>>

\* successCount with every batch counted, whatever its call's outcome
SuccessCountEveryBatch(outcome) == successCount + Len(PostBatch)

\* line 708, successCount += batchComments.length: reached only when the
\* createReview call of the batch has not thrown
SuccessCountAfter(outcome) ==
    IF outcome = "ok" THEN successCount + Len(PostBatch) ELSE successCount

\* lines 697-727: one createReview call and the wait that follows it
SubmitBatch ==
    /\ pc = "submit"
    /\ \E outcome \in {"ok", "rateLimit", "error"} :
         /\ calls' = Append(calls,
                      [ comments |-> PostBatch,
                        outcome  |-> outcome,
                        wait     |-> WaitAfter(outcome,
                                       postI + PostBatchSize < Len(validComments)) ])
         /\ successCount' = SuccessCountAfter(outcome)
         /\ postI' = AfterBatch(outcome)
         /\ pc' = IF AfterBatch(outcome) < Len(validComments) THEN "submit" ELSE "done"
    /\ UNCHANGED <<fvars, store, pr, localTesting, progress, shouldResume, files,
                   filesToProcess, i, k, batchResults, combinedDiff, diff, parsedDiff,
                   units, comments, validComments, excludePatterns, run, startStore, incremental, loaded, fetched,
                   validatedAs, postedEarlier, analysedEarlier, crashes, ioFailures>>

----------------------------------------------------------------------------
(* The end of a process *)

\* the comments this run's successful createReview calls carried
PostedNow ==
    UNION {Range(calls[n].comments) : n \in {m \in 1..Len(calls) : calls[m].outcome = "ok"}}

\* the values the variables of SpecValidate, SpecStore and SpecChunker hold
\* while another specification runs
ValidateIdle == vpc = "idle" /\ vComments = <<>> /\ vDiff = <<>> /\ vResult = <<>>

StoreIdle ==
    spc = "idle" /\ sSession = Null /\ sFile = Null /\ sFirst = Null /\ sLoaded = Null

ChunkerIdle == cpc = "idle" /\ cPatch = <<>> /\ cChunks = <<>>

ReplyIdle == apc = "idle" /\ aReplies = <<>> /\ aUnit = 0 /\ aComments = <<>>

JoinIdle == jpc = "idle" /\ jFiles = <<>> /\ jI = 0 /\ jText = <<>>

CommandsIdle == gpc = "idle" /\ gArgs = {} /\ gExport = <<>> /\ gStore = <<>>

\* the files whose chunks this run has sent to the analysis: those of the
\* filtered diff that hold a chunk, once analyzeCode has run
AnalysedNow ==
    IF pc \in {"failed", "post", "submit", "done"}
    THEN {file.to : file \in {f \in Range(filteredDiff(parsedDiff, excludePatterns)) :
                                 f.chunks # <<>> /\ f.to # "/dev/null"}}
    ELSE {}

\* The process is gone: only the progress file survives.
ProcessEnds(killed) ==
    /\ postedEarlier' = postedEarlier \cup {<<pr, c>> : c \in PostedNow}
    /\ analysedEarlier' = analysedEarlier \cup {<<pr, f>> : f \in AnalysedNow}
    /\ crashes' = IF killed THEN crashes + 1 ELSE crashes
    /\ pc' = "idle" /\ pr' = Null /\ localTesting' = FALSE /\ progress' = Null
    /\ shouldResume' = FALSE /\ files' = <<>> /\ filesToProcess' = <<>>
    /\ i' = 0 /\ k' = 0 /\ batchResults' = <<>> /\ combinedDiff' = <<>>
    /\ diff' = <<>> /\ parsedDiff' = <<>> /\ units' = <<>> /\ comments' = <<>>
    /\ validComments' = <<>> /\ postI' = 0 /\ successCount' = 0
    /\ excludePatterns' = <<>>
    /\ startStore' = Null /\ incremental' = FALSE /\ loaded' = Null /\ fetched' = <<>>
    /\ calls' = <<>> /\ validatedAs' = Null /\ ioFailures' = 0
    /\ UNCHANGED <<fvars, store, run>>

\* main returns
Finish ==
    /\ pc = "done"
    /\ ProcessEnds(FALSE)

\* main's catch: process.exit(1), lines 957-960
ErrorExit ==
    /\ pc = "failed"
    /\ ProcessEnds(FALSE)

\* the process is killed (a crash, or the job's timeout) at any point
Crash ==
    /\ pc \notin {"idle", "done", "failed"}
    /\ ProcessEnds(TRUE)

----------------------------------------------------------------------------
(* Spec: runs of the reviewer against one progress file *)

Init ==
    /\ ValidateIdle /\ StoreIdle /\ ChunkerIdle /\ ReplyIdle /\ JoinIdle /\ CommandsIdle
    /\ store = Null
    /\ run = 0
    /\ postedEarlier = {}
    /\ analysedEarlier = {}
    /\ crashes = 0
    /\ Volatile

Next ==
    \/ StartRun
    \/ IncrementalChanges
    \/ IncrementalFails
    \/ BeginSession
    \/ ListFilesThrows
    \/ ListFiles
    \/ ProcessFile
    \/ SaveAfterFile
    \/ BatchEnd
    \/ InterBatchDelay
    \/ FinishScheduler
    \/ MainParse
    \/ Analyze
    \/ AnalyzeThrows
    \/ PostBegin
    \/ SubmitBatch
    \/ Finish
    \/ ErrorExit
    \/ Crash

Spec == Init /\ [][Next]_vars

\* the steps of a running process: everything but the start of a process and
\* its being killed
ProgramStep ==
    \/ IncrementalChanges
    \/ IncrementalFails
    \/ BeginSession
    \/ ListFilesThrows
    \/ ListFiles
    \/ ProcessFile
    \/ SaveAfterFile
    \/ BatchEnd
    \/ InterBatchDelay
    \/ FinishScheduler
    \/ MainParse
    \/ Analyze
    \/ AnalyzeThrows
    \/ PostBegin
    \/ SubmitBatch
    \/ Finish
    \/ ErrorExit

\* what the run before the last one may have left in the progress file:
\* nothing, the session of a run of pull request 1 killed after its first file,
\* the completed session of pull request 1, the session of a run of pull
\* request 2 killed after its first file
LiveStores ==
    { Null,
      Some([createInitialProgress(1, "o/r", 3) EXCEPT !.processedFiles = <<"a">>]),
      Some([createInitialProgress(1, "o/r", 3) EXCEPT
                !.processedFiles = FileNames, !.currentBatch = 3, !.completed = TRUE]),
      Some([createInitialProgress(2, "o/r", 2) EXCEPT !.processedFiles = <<"b">>]) }

\* the last run of Spec is about to start
LiveInit ==
    /\ ValidateIdle /\ StoreIdle /\ ChunkerIdle /\ ReplyIdle /\ JoinIdle /\ CommandsIdle
    /\ store \in LiveStores
    /\ run = MaxRuns - 1
    /\ postedEarlier = {}
    /\ analysedEarlier = {}
    /\ crashes = IF store # Null /\ ~store[1].completed THEN 1 ELSE 0
    /\ Volatile

\* SpecLive: the last run of Spec with a process that keeps running while it
\* has a step to take: every call the program awaits returns or throws, and
\* its waits are timers that expire
SpecLive == LiveInit /\ [][Next]_vars /\ WF_vars(ProgramStep)

----------------------------------------------------------------------------
(* SpecValidate: validateCommentLine applied to bounded inputs *)

ParsedDiffs == SeqUpTo(FileEntries, MaxEntries)

CandidateLists == SeqUpTo(CandidateComments, MaxCands)

\* the values the variables of Spec hold while SpecValidate runs
RunIdle ==
    /\ store = Null /\ run = 0 /\ postedEarlier = {} /\ analysedEarlier = {}
    /\ crashes = 0 /\ Volatile

ValidateInit ==
    /\ vpc = "input"
    /\ vComments \in CandidateLists
    /\ vDiff \in ParsedDiffs
    /\ vResult = <<>>
    /\ StoreIdle /\ ChunkerIdle /\ ReplyIdle /\ JoinIdle /\ CommandsIdle
    /\ RunIdle

Validate ==
    /\ vpc = "input"
    /\ vResult' = validateCommentLine(vComments, vDiff)
    /\ vpc' = "validated"
    /\ UNCHANGED <<vComments, vDiff, svars, cvars, avars, jvars, gvars, store, rvars, hvars>>

ValidateNext == Validate

SpecValidate == ValidateInit /\ [][ValidateNext]_vars

----------------------------------------------------------------------------
(* SpecStore: saveProgress and loadProgress on the text of the progress file,
   lines 75-94 *)

MaxStoredComments == 1  \* comments in the allComments of a stored session

\* the value of a property that an object lacks or holds as undefined
Undefined == "undefined"

\* obj[key] as JavaScript reads it
Get(obj, key) == IF key \in DOMAIN obj THEN obj[key] ELSE Undefined

\* the JSON text of a number, a string, a boolean
JSONNumber(n) == <<"number", n>>
JSONString(str) == <<"string", str>>
JSONBoolean(b) == <<"boolean", b>>

\* the value JSON.parse reads from the text of a number, string or boolean
JSONScalar(text) == text[2]

\* WrittenKeys losing the path of a comment
WrittenKeysWithoutPath(c) ==
    {key \in DOMAIN c : key = "line" \/ (key # "path" /\ c[key] # Undefined)}

\* the properties of a comment JSON.stringify writes: it leaves out those
\* whose value is undefined (line is a number)
WrittenKeys(c) == {key \in DOMAIN c : key = "line" \/ c[key] # Undefined}

JSONStringifyComment(c) ==
    [key \in WrittenKeys(c) |->
        IF key = "line" THEN JSONNumber(c[key]) ELSE JSONString(c[key])]

JSONParseComment(text) == [key \in DOMAIN text |-> JSONScalar(text[key])]

\* JSON.stringify(progress, null, 2), line 89: the text as the tree of its
\* members
JSONStringify(p) ==
    [ prNumber       |-> JSONNumber(p.prNumber),
      repository     |-> JSONString(p.repository),
      processedFiles |-> [n \in 1..Len(p.processedFiles) |->
                             JSONString(p.processedFiles[n])],
      allComments    |-> [n \in 1..Len(p.allComments) |->
                             JSONStringifyComment(p.allComments[n])],
      currentBatch   |-> JSONNumber(p.currentBatch),
      totalFiles     |-> JSONNumber(p.totalFiles),
      timestamp      |-> JSONString(p.timestamp),
      completed      |-> JSONBoolean(p.completed) ]

\* JSON.parse(progressData), line 79
JSONParse(text) ==
    [ prNumber       |-> JSONScalar(text.prNumber),
      repository     |-> JSONScalar(text.repository),
      processedFiles |-> [n \in 1..Len(text.processedFiles) |->
                             JSONScalar(text.processedFiles[n])],
      allComments    |-> [n \in 1..Len(text.allComments) |->
                             JSONParseComment(text.allComments[n])],
      currentBatch   |-> JSONScalar(text.currentBatch),
      totalFiles     |-> JSONScalar(text.totalFiles),
      timestamp      |-> JSONScalar(text.timestamp),
      completed      |-> JSONScalar(text.completed) ]

\* The comments a session may hold: validated comments, whose line is a line
\* of the diff; the body is the reply's reviewComment, undefined when the
\* reply item carries none (line 615).
StoredComments ==
    {[body |-> b, path |-> "a", line |-> n] : b \in {"text", Undefined}, n \in 1..2}

\* the sessions handed to saveProgress: ReviewProgress values with their
\* timestamp
StoredSessions ==
    { [ prNumber       |-> t.pull_number,
        repository     |-> t.repository,
        processedFiles |-> pf,
        allComments    |-> cs,
        currentBatch   |-> cb,
        totalFiles     |-> Len(FileNames),
        timestamp      |-> "2024-01-01T00:00:00.000Z",
        completed      |-> done ] :
      t \in Targets, pf \in Listings,
      cs \in SeqUpTo(StoredComments, MaxStoredComments),
      cb \in 0..1, done \in BOOLEAN }

\* what the progress file may hold before the first save: nothing, or the
\* text of an earlier session
EarlierFiles ==
    { Null,
      Some(JSONStringify([ prNumber |-> 2, repository |-> "o/r",
                           processedFiles |-> <<"c">>, allComments |-> <<>>,
                           currentBatch |-> 1, totalFiles |-> 1,
                           timestamp |-> "2023-12-31T00:00:00.000Z",
                           completed |-> FALSE ])) }

StoreInit ==
    /\ spc = "start"
    /\ sSession \in {Some(p) : p \in StoredSessions}
    /\ sFile \in EarlierFiles
    /\ sFirst = Null
    /\ sLoaded = Null
    /\ ValidateIdle /\ ChunkerIdle /\ ReplyIdle /\ JoinIdle /\ CommandsIdle
    /\ RunIdle

\* saveProgress(progress), lines 87-94: writeFileSync overwrites the file; a
\* write that throws is caught and leaves the file as it was
SaveToFile ==
    /\ spc \in {"start", "saved"}
    /\ \E ok \in BOOLEAN :
         IF ok
         THEN /\ sFile' = Some(JSONStringify(sSession[1]))
              /\ sFirst' = IF spc = "start" THEN sFile' ELSE sFirst
              /\ spc' = IF spc = "start" THEN "saved" ELSE "savedTwice"
         ELSE /\ spc' = "failed"
              /\ UNCHANGED <<sFile, sFirst>>
    /\ UNCHANGED <<sSession, sLoaded, vvars, cvars, avars, jvars, gvars, store, rvars, hvars>>

\* loadProgress(), lines 75-85: null when there is no file or the read throws
LoadFromFile ==
    /\ spc \in {"saved", "savedTwice"}
    /\ \E ok \in BOOLEAN :
         IF ok
         THEN /\ sLoaded' = IF sFile = Null THEN Null ELSE Some(JSONParse(sFile[1]))
              /\ spc' = "loaded"
         ELSE /\ sLoaded' = Null
              /\ spc' = "failed"
    /\ UNCHANGED <<sSession, sFile, sFirst, vvars, cvars, avars, jvars, gvars, store, rvars, hvars>>

StoreNext == SaveToFile \/ LoadFromFile

SpecStore == StoreInit /\ [][StoreNext]_vars

----------------------------------------------------------------------------
(* SpecChunker: splitLargeFilePatch and splitByLines, lines 413-477 *)

MaxPatchLines == 6  \* lines of a patch text handed to splitLargeFilePatch

\* const maxLinesPerChunk = 5000 (lines 437 and 469), scaled to the patch
\* texts of the model
MaxLinesPerChunk == 4

\* A text is the sequence of its lines, text.split('\n'): never empty, the
\* empty string being <<"">>; a text that ends in a newline has "" as its
\* last line.
EmptyText == <<"">>

\* text.split('\n').length
LineCount(text) == Len(text)

\* string concatenation s + t: the last line of s runs into the first of t
Concat(s, t) ==
    SubSeq(s, 1, Len(s) - 1) \o <<s[Len(s)] \o t[1]>> \o Tail(t)

\* lines that match /@@ -\d+,\d+ \+\d+,\d+ @@.*/ from their first character
HeaderLines == {"@@ -1,1 +1,2 @@", "@@ -5,1 +6,2 @@"}

\* lines that hold no match of the pattern
ContentLines == {"+x", " y"}

IsHeader(line) == line \in HeaderLines

\* the patch texts of the model
PatchTexts == UNION {[1..m -> HeaderLines \cup ContentLines] : m \in 1..MaxPatchLines}

\* patch.split(hunkRegex), line 416: the texts between the matches and, the
\* pattern being one capture group, the matches themselves. cur is the text
\* since the last match; a match runs to the end of its line.
RECURSIVE SplitByHeaders(_, _, _)
SplitByHeaders(lines, n, cur) ==
    IF n > Len(lines) THEN <<cur>>
    ELSE IF IsHeader(lines[n])
         THEN <<cur, <<lines[n]>>>>
              \o SplitByHeaders(lines, n + 1,
                                IF n < Len(lines) THEN <<"", "">> ELSE EmptyText)
         ELSE LET withLine == Concat(cur, <<lines[n]>>)
              IN  SplitByHeaders(lines, n + 1,
                                 IF n < Len(lines) THEN Append(withLine, "")
                                 ELSE withLine)

\* .filter(Boolean), line 416: the empty strings are dropped
Hunks(patch) ==
    LET nonEmpty(piece) == piece # EmptyText
    IN  SelectSeq(SplitByHeaders(patch, 1, EmptyText), nonEmpty)

\* ProperHunks keeping only the first piece of every pair
ProperHunksFirstOfPair(hunks) ==
    [j \in 1..((Len(hunks) + 1) \div 2) |-> hunks[2 * j - 1]]

\* lines 424-431: the pieces are joined in pairs, the first with the second,
\* the third with the fourth, ...; a last piece without partner stays alone
ProperHunks(hunks) ==
    [j \in 1..((Len(hunks) + 1) \div 2) |->
        IF 2 * j <= Len(hunks) THEN Concat(hunks[2 * j - 1], hunks[2 * j])
        ELSE hunks[2 * j - 1]]

\* the three synthetic header lines of a chunk
FileHeader(filename) ==
    << "diff --git a/" \o filename \o " b/" \o filename,
       "--- a/" \o filename,
       "+++ b/" \o filename >>

\* lines 444 and 456: the header lines, a newline, the chunk's text
Headered(filename, text) == Concat(FileHeader(filename) \o <<"">>, text)

\* line 442
ClosesChunk(currentChunk, currentChunkLines, hunkLines) ==
    currentChunkLines + hunkLines > MaxLinesPerChunk /\ currentChunk # EmptyText

\* lines 439-457: the loop over properHunks from the n-th on, and the push of
\* what is left
RECURSIVE PackHunks(_, _, _, _, _, _)
PackHunks(filename, properHunks, n, chunks, currentChunk, currentChunkLines) ==
    IF n > Len(properHunks)
    THEN IF currentChunk # EmptyText
         THEN Append(chunks, Headered(filename, currentChunk))
         ELSE chunks
    ELSE LET hunk == properHunks[n]
             hunkLines == LineCount(hunk)
         IN  IF ClosesChunk(currentChunk, currentChunkLines, hunkLines)
             THEN PackHunks(filename, properHunks, n + 1,
                            Append(chunks, Headered(filename, currentChunk)),
                            hunk, hunkLines)
             ELSE PackHunks(filename, properHunks, n + 1, chunks,
                            Concat(currentChunk, hunk),
                            currentChunkLines + hunkLines)

\* Math.ceil(a / b) for a >= 0, b > 0
Ceil(a, b) == (a + b - 1) \div b

\* the marker line of a fixed window, line 473
ChunkMarker(index, total) ==
    "@@ Chunk " \o ToString(index) \o "/" \o ToString(total) \o " @@"

\* splitByLines with every window started one line early
splitByLinesOverlapping(filename, patch) ==
    LET total == Ceil(LineCount(patch), MaxLinesPerChunk)
    IN  [w \in 1..total |->
            FileHeader(filename) \o <<ChunkMarker(w, total)>>
            \o Slice(patch, IF w = 1 THEN 0 ELSE (w - 1) * MaxLinesPerChunk - 1,
                     w * MaxLinesPerChunk)]

\* splitByLines, lines 466-477: windows of maxLinesPerChunk lines, each under
\* the header lines and its marker
splitByLines(filename, patch) ==
    LET total == Ceil(LineCount(patch), MaxLinesPerChunk)
    IN  [w \in 1..total |->
            FileHeader(filename) \o <<ChunkMarker(w, total)>>
            \o Slice(patch, (w - 1) * MaxLinesPerChunk, w * MaxLinesPerChunk)]

\* splitLargeFilePatch, lines 413-461
splitLargeFilePatch(filename, patch) ==
    LET hunks == Hunks(patch)
    IN  IF Len(hunks) <= 1 THEN splitByLines(filename, patch)
        ELSE PackHunks(filename, ProperHunks(hunks), 1, <<>>, EmptyText, 0)

ChunkerInit ==
    /\ cpc = "input"
    /\ cPatch \in PatchTexts
    /\ cChunks = <<>>
    /\ ValidateIdle /\ StoreIdle /\ ReplyIdle /\ JoinIdle /\ CommandsIdle
    /\ RunIdle

\* line 315: const chunks = splitLargeFilePatch(file.filename, file.patch)
Split ==
    /\ cpc = "input"
    /\ cChunks' = splitLargeFilePatch("f", cPatch)
    /\ cpc' = "split"
    /\ UNCHANGED <<cPatch, vvars, svars, avars, jvars, gvars, store, rvars, hvars>>

ChunkerNext == Split

SpecChunker == ChunkerInit /\ [][ChunkerNext]_vars

----------------------------------------------------------------------------
(* SpecReply: getAIResponse's handling of the reply text, lines 560-599, and
   analyzeCode's loop, lines 485-498.  A text is the sequence of its tokens:
   a fence of three backticks, a language tag, a space, a newline, or a
   piece of JSON. *)

\* the number of analysis units (file, chunk) of the model's parsed diff
MaxUnits == 2

\* the three backticks that open and close a code block
Fence == "<fence>"
Newline == "\n"

\* the tokens String.prototype.trim and JSON.parse treat as white space
IsSpace(t) == t \in {" ", Newline}

RECURSIVE TrimStart(_)
TrimStart(text) ==
    IF text # <<>> /\ IsSpace(Head(text)) THEN TrimStart(Tail(text)) ELSE text

RECURSIVE TrimEnd(_)
TrimEnd(text) ==
    IF text # <<>> /\ IsSpace(text[Len(text)])
    THEN TrimEnd(SubSeq(text, 1, Len(text) - 1))
    ELSE text

\* res.trim()
Trim(text) == TrimEnd(TrimStart(text))

\* res.split('\n'): the lines of a text, cur being the line under construction
RECURSIVE SplitLines(_, _)
SplitLines(text, cur) ==
    IF text = <<>> THEN <<cur>>
    ELSE IF Head(text) = Newline THEN <<cur>> \o SplitLines(Tail(text), <<>>)
    ELSE SplitLines(Tail(text), Append(cur, Head(text)))

\* lines.join('\n')
RECURSIVE JoinLines(_)
JoinLines(lines) ==
    IF lines = <<>> THEN <<>>
    ELSE IF Len(lines) = 1 THEN lines[1]
    ELSE lines[1] \o <<Newline>> \o JoinLines(Tail(lines))

\* lines 567-573 and 577-582: drop the first line, drop the last line when it
\* is a fence, join and trim.  Null when lines[lines.length - 1] is undefined
\* (no line is left after shift) and .trim() throws the TypeError.
StripFenceLines(res) ==
    LET lines == Tail(SplitLines(res, <<>>))
    IN  IF lines = <<>> THEN Null
        ELSE LET kept == IF Trim(lines[Len(lines)]) = <<Fence>>
                         THEN SubSeq(lines, 1, Len(lines) - 1)
                         ELSE lines
             IN  Some(Trim(JoinLines(kept)))

\* lines 566-584: Null when the cleaning throws
CleanCodeBlock(res) ==
    IF IsPrefix(<<Fence, "json">>, res) THEN StripFenceLines(res)
    ELSE IF IsPrefix(<<Fence>>, res) THEN StripFenceLines(res)
    ELSE Some(res)

RECURSIVE StripLeadingFences(_)
StripLeadingFences(text) ==
    IF text # <<>> /\ Head(text) = Fence THEN StripLeadingFences(Tail(text)) ELSE text

RECURSIVE StripTrailingFences(_)
StripTrailingFences(text) ==
    IF text # <<>> /\ text[Len(text)] = Fence
    THEN StripTrailingFences(SubSeq(text, 1, Len(text) - 1))
    ELSE text

\* line 587: the backticks left at either end are removed, then trim()
StripBackticks(res) == Trim(StripTrailingFences(StripLeadingFences(res)))

\* ---- JSON values
Arr(items) == [t |-> "array", items |-> items]
Obj(reviews) == [t |-> "object", reviews |-> reviews]
Num(n) == [t |-> "number", n |-> n]
NullValue == [t |-> "null"]
UndefinedValue == [t |-> "undefined"]
SyntaxError == [t |-> "SyntaxError"]

\* the pieces of JSON of the model's replies
ReviewsKey == "\"reviews\":"
ReviewItem == "{\"lineNumber\":\"1\",\"reviewComment\":\"r\"}"

\* the text without its white space
NonSpace(text) == SelectSeq(text, LAMBDA t : ~IsSpace(t))

\* JSON.parse, line 590, on the model's texts: white space between the pieces
\* is skipped; any other text is a SyntaxError
JSONParseReply(res) ==
    LET ts == NonSpace(res)
    IN  CASE ts = <<"{", ReviewsKey, "[", "]", "}">>             -> Obj(Arr(<<>>))
          [] ts = <<"{", ReviewsKey, "[", ReviewItem, "]", "}">> -> Obj(Arr(<<1>>))
          [] ts = <<"{", ReviewsKey, "null", "}">>               -> Obj(NullValue)
          [] ts = <<"{", "}">>                                   -> Obj(UndefinedValue)
          [] ts = <<"[", ReviewItem, "]">>                       -> Arr(<<1>>)
          [] ts = <<"5">>                                        -> Num(5)
          [] ts = <<"null">>                                     -> NullValue
          [] OTHER                                               -> SyntaxError

\* JavaScript's ToBoolean on the values of the model: arrays and objects are
\* truthy, empty ones included
Truthy(v) == v.t \in {"array", "object"} \/ (v.t = "number" /\ v.n # 0)

\* ToBoolean with the empty array taken as false
TruthyUnlessEmpty(v) ==
    \/ (v.t = "array" /\ v.items # <<>>)
    \/ v.t = "object"
    \/ (v.t = "number" /\ v.n # 0)

\* what getAIResponse returns and whether it logged an error
Returned(v, logged) == [value |-> v, logged |-> logged]

\* parsed.reviews || parsed with ToBoolean taking the empty array as false
ReviewsOrParsedUnlessEmpty(parsed) ==
    IF parsed.t = "null" THEN Returned(NullValue, TRUE)
    ELSE IF parsed.t = "object" /\ TruthyUnlessEmpty(parsed.reviews)
         THEN Returned(parsed.reviews, FALSE)
         ELSE Returned(parsed, FALSE)

\* line 591, return parsed.reviews || parsed: reading .reviews of null
\* throws inside the inner try, whose catch logs and returns null
ReviewsOrParsed(parsed) ==
    IF parsed.t = "null" THEN Returned(NullValue, TRUE)
    ELSE IF parsed.t = "object" /\ Truthy(parsed.reviews)
         THEN Returned(parsed.reviews, FALSE)
         ELSE Returned(parsed, FALSE)

\* lines 560-587: the text handed to JSON.parse, Null when the cleaning throws
CleanedResponse(content) ==
    LET res     == IF Trim(content) = <<>> THEN <<"{", "}">> ELSE Trim(content)
        cleaned == CleanCodeBlock(res)
    IN  IF cleaned = Null THEN Null ELSE Some(StripBackticks(cleaned[1]))

\* lines 560-599, from the reply text (message.content) on: both catch blocks
\* log the error and return null
getAIResponse(content) ==
    LET cleaned == CleanedResponse(content)
    IN  IF cleaned = Null THEN Returned(NullValue, TRUE)
        ELSE LET parsed == JSONParseReply(cleaned[1])
             IN  IF parsed = SyntaxError THEN Returned(NullValue, TRUE)
                 ELSE ReviewsOrParsed(parsed)

\* ---- the reply texts of the model
Contents ==
    { <<"{", ReviewsKey, "[", "]", "}">>,
      <<"{", ReviewsKey, "[", ReviewItem, "]", "}">>,
      <<"{", Newline, " ", ReviewsKey, "[", ReviewItem, "]", Newline, "}">>,
      <<"{", ReviewsKey, "null", "}">>,
      <<"{", "}">>,
      <<"[", ReviewItem, "]">>,
      <<"5">>,
      <<"null">>,
      <<"Sorry">>,
      <<>> }

Styles == {"plain", "jsonOwnLines", "bareOwnLines", "jsonSameLine",
           "bareSameLine", "closingSameLine"}

\* the reply that wraps a content in triple-backtick fencing
Wrap(content, style) ==
    CASE style = "jsonOwnLines"    -> <<Fence, "json", Newline>> \o content \o <<Newline, Fence>>
      [] style = "bareOwnLines"    -> <<Fence, Newline>> \o content \o <<Newline, Fence>>
      [] style = "jsonSameLine"    -> <<Fence, "json", " ">> \o content \o <<" ", Fence>>
      [] style = "bareSameLine"    -> <<Fence>> \o content \o <<Fence>>
      [] style = "closingSameLine" -> <<Fence, "json", Newline>> \o content \o <<Fence>>
      [] OTHER                     -> content

Replies == [content : Contents, style : Styles]

ReplyText(reply) == Wrap(reply.content, reply.style)

\* the file every unit of the model belongs to (file.to)
UnitPath == "a"

\* createComment, lines 610-619, on a list of items
CommentsOf(items) == [n \in 1..Len(items) |-> ReviewComment(UnitPath, items[n])]

\* line 610: aiResponses.flatMap exists on arrays only
HasFlatMap(v) == v.t = "array"

ReplyInit ==
    /\ apc = "analyze"
    /\ aReplies \in [1..MaxUnits -> Replies]
    /\ aUnit = 1
    /\ aComments = <<>>
    /\ ValidateIdle /\ StoreIdle /\ ChunkerIdle /\ JoinIdle /\ CommandsIdle
    /\ RunIdle

\* one turn of the loop of lines 487-496
AnalyzeUnit ==
    /\ apc = "analyze"
    /\ aUnit <= Len(aReplies)
    /\ LET aiResponse == getAIResponse(ReplyText(aReplies[aUnit])).value
       IN  IF ~Truthy(aiResponse)
           THEN /\ aUnit' = aUnit + 1
                /\ UNCHANGED <<apc, aComments>>
           ELSE IF HasFlatMap(aiResponse)
                THEN /\ aComments' = aComments \o CommentsOf(aiResponse.items)
                     /\ aUnit' = aUnit + 1
                     /\ UNCHANGED apc
                ELSE \* TypeError: aiResponses.flatMap is not a function
                     /\ apc' = "thrown"
                     /\ UNCHANGED <<aUnit, aComments>>
    /\ UNCHANGED <<aReplies, vvars, svars, cvars, jvars, gvars, store, rvars, hvars>>

\* line 498
AnalyzeReturns ==
    /\ apc = "analyze"
    /\ aUnit > Len(aReplies)
    /\ apc' = "returned"
    /\ UNCHANGED <<aReplies, aUnit, aComments, vvars, svars, cvars, jvars, gvars, store, rvars, hvars>>

ReplyNext == AnalyzeUnit \/ AnalyzeReturns

SpecReply == ReplyInit /\ [][ReplyNext]_vars

----------------------------------------------------------------------------
(* SpecJoin: the text getIndividualFileDiffs builds from the fragments of its
   batches, lines 288-377.  Texts are sequences of lines, as in SpecChunker. *)

\* array.join('\n') of texts: each text's lines, one text under the other;
\* the empty array joins to the empty string
RECURSIVE JoinWithNewline(_)
JoinWithNewline(texts) ==
    IF texts = <<>> THEN EmptyText
    ELSE IF Len(texts) = 1 THEN texts[1]
    ELSE texts[1] \o JoinWithNewline(Tail(texts))

\* the patch of a file of the listing that carries one
ListedPatch == <<"@@ -1,1 +1,2 @@", "+x">>

\* what the listing says of one file and whether its callback throws
JoinFileInputs ==
    { [patch |-> Null, throws |-> FALSE],
      [patch |-> Some(ListedPatch), throws |-> FALSE],
      [patch |-> Some(ListedPatch), throws |-> TRUE] }

\* the worklists of the model: a listing and, per file, its input
JoinWorklists ==
    UNION { { [n \in 1..Len(l) |->
                 [filename |-> l[n], patch |-> in[n].patch, throws |-> in[n].throws]] :
              in \in [1..Len(l) -> JoinFileInputs] } : l \in Listings }

\* reconstructDiffFromProgress as text, lines 401-405: two comment lines, each
\* ended by a newline
ManifestText == <<"# Previously processed files", "# Files", "">>

\* lines 302-360: the text the callback of one file returns
FragmentText(file) ==
    IF file.throws
    THEN FileHeader(file.filename) \o <<"@@ Error retrieving diff @@">>
    ELSE IF file.patch # Null
    THEN IF LineCount(file.patch[1]) > OversizedThreshold
         THEN JoinWithNewline(splitLargeFilePatch(file.filename, file.patch[1]))
         ELSE <<FileHeader(file.filename)[1]>> \o file.patch[1]
    ELSE FileHeader(file.filename)
         \o <<"@@ File change detected, but diff not available @@">>

\* line 363: combinedDiff += batchResults.join("\n")
Appended(text, batch) ==
    Concat(text, JoinWithNewline([n \in 1..Len(batch) |-> FragmentText(batch[n])]))

JoinInit ==
    /\ jpc = "loop"
    /\ jFiles \in JoinWorklists
    /\ jI = 0
    /\ jText \in {EmptyText, ManifestText}
    /\ ValidateIdle /\ StoreIdle /\ ChunkerIdle /\ ReplyIdle /\ CommandsIdle
    /\ RunIdle

\* lines 295-363: one batch of the loop
JoinBatch ==
    /\ jpc = "loop"
    /\ jI < Len(jFiles)
    /\ jText' = Appended(jText, Slice(jFiles, jI, jI + SchedulerBatchSize))
    /\ jI' = jI + SchedulerBatchSize
    /\ UNCHANGED <<jpc, jFiles, vvars, svars, cvars, avars, gvars, store, rvars, hvars>>

\* line 387: return combinedDiff || ""
JoinReturns ==
    /\ jpc = "loop"
    /\ jI >= Len(jFiles)
    /\ jpc' = "returned"
    /\ UNCHANGED <<jFiles, jI, jText, vvars, svars, cvars, avars, gvars, store, rvars, hvars>>

JoinNext == JoinBatch \/ JoinReturns

SpecJoin == JoinInit /\ [][JoinNext]_vars

----------------------------------------------------------------------------
(* SpecCommands: a process started with the flags of the progress commands,
   handleProgressCommands (lines 738-776) and main's first lines (851-855);
   a process started without them runs main as in Spec *)

Flags == {"--clear-progress", "--show-progress", "--export-comments"}

\* the command handleProgressCommands runs: the flags are tested in this
\* order (lines 741, 747, 763) and the first one present returns
Command(args) ==
    IF "--clear-progress" \in args THEN "clear"
    ELSE IF "--show-progress" \in args THEN "show"
    ELSE IF "--export-comments" \in args THEN "export"
    ELSE "none"

\* the progress files a process may find: those of LiveStores and a
\* completed session with an accumulated comment
CommandStores ==
    LiveStores \cup
    { Some([createInitialProgress(1, "o/r", 1) EXCEPT
              !.processedFiles = <<"c">>,
              !.allComments = <<[path |-> "c", line |-> 1]>>,
              !.currentBatch = 1,
              !.completed = TRUE]) }

CommandsInit ==
    /\ gpc = "start"
    /\ gArgs \in SUBSET Flags
    /\ gExport = Null
    /\ store \in CommandStores
    /\ gStore = store
    /\ ValidateIdle /\ StoreIdle /\ ChunkerIdle /\ ReplyIdle /\ JoinIdle
    /\ run = MaxRuns - 1
    /\ postedEarlier = {}
    /\ analysedEarlier = {}
    /\ crashes = IF store # Null /\ ~store[1].completed THEN 1 ELSE 0
    /\ Volatile

\* --show-progress with the record cleared as by --clear-progress
StoreAfterCommandShowClears(command, st, ok) ==
    IF command \in {"clear", "show"} THEN clearProgress(st, ok) ELSE st

\* the progress file after handleProgressCommands: only clearProgress (line
\* 742) writes to it; loadProgress (lines 748, 764) reads
StoreAfterCommand(command, st, ok) ==
    IF command = "clear" THEN clearProgress(st, ok) ELSE st

\* main's first lines: handleProgressCommands() and, when it returns true,
\* main's return. writeOk: the writeFileSync of the export file (line 767)
\* does not throw; a throw ends in main's catch and process.exit(1).
HandleProgressCommands ==
    /\ gpc = "start"
    /\ \E ok \in IOOutcomes(store # Null /\ Command(gArgs) # "none"),
          writeOk \in BOOLEAN :
         LET command == Command(gArgs)
             p == IF command \in {"show", "export"} THEN loadProgress(ok) ELSE Null
             exports == command = "export" /\ p # Null /\ Len(p[1].allComments) > 0
         IN  /\ store' = StoreAfterCommand(command, store, ok)
             /\ ioFailures' = ioFailures + Failed(ok)
             /\ gExport' = IF exports /\ writeOk THEN Some(p[1].allComments) ELSE gExport
             /\ gpc' = IF command = "none" THEN "main"
                       ELSE IF exports /\ ~writeOk THEN "exited"
                       ELSE "returned"
    /\ UNCHANGED <<gArgs, gStore, vvars, svars, cvars, avars, jvars, rvars,
                   run, startStore, incremental, loaded, fetched, calls, validatedAs,
                   postedEarlier, analysedEarlier, crashes>>

CommandsNext == HandleProgressCommands \/ Next

SpecCommands == CommandsInit /\ [][CommandsNext]_vars

----------------------------------------------------------------------------
(* Claims about the validator (SpecValidate) *)

\* The spec's matching rule (section 4.6): an addition record matches by its
\* new-line number, a deletion record by its old-line number, a context record
\* by either.
RecordAddresses(change, line) ==
    \/ change.type = "add" /\ change.ln = line
    \/ change.type = "del" /\ change.ln = line
    \/ change.type = "normal" /\ (change.ln1 = line \/ change.ln2 = line)

\* some file entry of pd with the comment's path holds a record addressing
\* the comment's line
Addressable(comment, pd) ==
    \E e \in 1..Len(pd) :
        /\ pd[e].to = comment.path \/ pd[e].from = comment.path
        /\ \E c \in 1..Len(pd[e].chunks) :
               \E n \in 1..Len(pd[e].chunks[c].changes) :
                   RecordAddresses(pd[e].chunks[c].changes[n], comment.line)

\* the candidates the validator dropped
Dropped == {vComments[n] : n \in {m \in 1..Len(vComments) : vComments[m] \notin Range(vResult)}}

\* C2 - validator soundness: every comment validateCommentLine returns is one
\* of the candidates, and the parsed diff has a file entry with the comment's
\* path (as new-path or old-path) holding a change record that addresses the
\* comment's line.
C2_ValidatorSound ==
    vpc = "validated" =>
        \A n \in 1..Len(vResult) :
            /\ vResult[n] \in Range(vComments)
            /\ Addressable(vResult[n], vDiff)

\* C2 witness: the validator accepted a comment, out of a diff of two entries,
\* on a line that is present only as a deletion record.
C2_Witness ==
    /\ vpc = "validated"
    /\ Len(vDiff) = 2
    /\ vResult = <<ReviewComment("a", 2)>>
    /\ \A e \in 1..Len(vDiff) : vDiff[e].chunks \in {<<>>, <<Chunk(<<DelChange(2)>>)>>}

\* C3 - validator completeness: every candidate validateCommentLine drops has
\* no change record addressing its line in any file entry of the parsed diff
\* with its path, also when several file entries carry that path.
C3_ValidatorComplete ==
    vpc = "validated" => \A c \in Dropped : ~Addressable(c, vDiff)

\* s is t with some of its elements left out: the elements of s are elements
\* of t, unmodified, in t's order, none more often than in t
RECURSIVE IsSubsequence(_, _)
IsSubsequence(s, t) ==
    IF s = <<>> THEN TRUE
    ELSE IF t = <<>> THEN FALSE
    ELSE IF Head(s) = Head(t) THEN IsSubsequence(Tail(s), Tail(t))
    ELSE IsSubsequence(s, Tail(t))

\* C38 - validateCommentLine is a pure filter: its result is a subsequence of
\* the candidate list (same relative order, same multiplicity, each comment
\* unmodified); the call changes neither the candidate list, nor the parsed
\* diff, nor the stored session; and validating its result against the same
\* parsed diff returns that result unchanged.
C38_PureFilter ==
    /\ [](vpc = "validated" =>
            /\ IsSubsequence(vResult, vComments)
            /\ validateCommentLine(vResult, vDiff) = vResult)
    /\ [][vpc = "input" =>
            vComments' = vComments /\ vDiff' = vDiff /\ store' = store]_vars

\* the validator kept the first and the third of three candidates, the same
\* comment twice, and dropped the one between them
C38_Witness ==
    /\ vpc = "validated"
    /\ Len(vComments) = 3
    /\ vComments[1] = vComments[3]
    /\ vComments[2] # vComments[1]
    /\ vResult = <<vComments[1], vComments[3]>>

----------------------------------------------------------------------------
(* Claims about the runs (Spec) *)

SameKey(p, target) ==
    p.prNumber = target.pull_number /\ p.repository = target.repository

\* the run resumed the session it loaded
Resumed == pr # Null /\ loaded # Null /\ ShouldResume(loaded, pr)

\* C1 - hard gate: every comment of every createReview call of a run is an
\* element of the list validateCommentLine returned for the run's parsed diff;
\* in particular no call is made when that list is empty, and under
\* LOCAL_TESTING no call is made at all.
C1_HardGate ==
    \A n \in 1..Len(calls) :
        /\ validatedAs # Null
        /\ validatedAs[1] # <<>>
        /\ ~localTesting
        /\ \A c \in Range(calls[n].comments) :
               /\ c \in Range(validatedAs[1])
               /\ c \in Range(validateCommentLine(comments, parsedDiff))

\* C1 witness: a createReview call was made in a run whose candidate list held
\* a comment the validator dropped.
C1_Witness ==
    /\ Len(calls) >= 1
    /\ calls[1].outcome = "ok"
    /\ \E n \in 1..Len(comments) : comments[n] \notin Range(validatedAs[1])

\* C4 - no re-posting across crash and resume: once a run was killed, no
\* createReview call of a later run carries a comment that an earlier run
\* against the same (repository, PR number) submitted successfully.
C4_NoRepost ==
    crashes > 0 =>
        \A n \in 1..Len(calls) :
            \A c \in Range(calls[n].comments) : <<pr, c>> \notin postedEarlier

\* C5 - resume monotonicity: when a resumed run of getIndividualFileDiffs
\* returns, having been listed a worklist of N files that holds the K files of
\* the loaded processedFiles, it has processed exactly the N - K other files,
\* each once, and processedFiles has N entries.
C5_ResumeMonotonic ==
    (/\ pc = "main" /\ Resumed /\ files # <<>>
     /\ Range(loaded[1].processedFiles) \subseteq Range(Worklist(files, localTesting)))
    => LET worklist == Worklist(files, localTesting)
           done == loaded[1].processedFiles
       IN  /\ Range(fetched) = Range(worklist) \ Range(done)
           /\ Len(fetched) = Len(worklist) - Len(done)
           /\ Len(progress[1].processedFiles) = Len(worklist)

\* C5 witness: a resumed run returns after processing the two files that the
\* interrupted run had left of three.
C5_Witness ==
    /\ pc = "main" /\ Resumed
    /\ files = FileNames /\ ~localTesting
    /\ Len(loaded[1].processedFiles) = 1
    /\ Len(fetched) = 2

\* C6 - session size invariant, its second half: processedFiles.length never
\* exceeds totalFiles, in memory and in the progress file.
C6_NeverExceedsTotal ==
    /\ progress # Null => Len(progress[1].processedFiles) <= progress[1].totalFiles
    /\ store # Null => Len(store[1].processedFiles) <= store[1].totalFiles

\* C7 - completion invariant: completed = true implies
\* processedFiles.length >= totalFiles, in memory and in the progress file.
C7_CompletedImpliesAll ==
    /\ (progress # Null /\ progress[1].completed)
           => Len(progress[1].processedFiles) >= progress[1].totalFiles
    /\ (store # Null /\ store[1].completed)
           => Len(store[1].processedFiles) >= store[1].totalFiles

\* C7 witness: a run has marked its session completed and saved it.
C7_Witness ==
    /\ pc = "main"
    /\ progress # Null /\ progress[1].completed
    /\ store = progress

\* C8 - completion is reached: whenever getIndividualFileDiffs returns from a
\* non-empty listing with processedFiles.length >= totalFiles, the session has
\* completed = true, and (no checkpoint write having failed) the progress file
\* holds that session.
C8_CompletionReached ==
    (/\ pc = "main" /\ files # <<>> /\ progress # Null
     /\ Len(progress[1].processedFiles) >= progress[1].totalFiles)
    => /\ progress[1].completed
       /\ ioFailures = 0 => store = progress

\* C9 - a stale session is discarded and never reused: in a run that found the
\* progress file holding a record of another (repository, PR number), with no
\* checkpoint I/O failing, no file is skipped and the diff is not seeded from
\* that record, and when the run ends the progress file holds no record of
\* that other key.
Stale ==
    pr # Null /\ startStore # Null /\ ~SameKey(startStore[1], pr) /\ ioFailures = 0

C9_StaleDiscarded ==
    Stale =>
        /\ pc \in {"file", "fileSave", "batchEnd", "delay", "finish"}
              => /\ filesToProcess = Worklist(files, localTesting)
                 /\ SameKey(progress[1], pr)
                 /\ Range(progress[1].processedFiles) = Range(fetched)
        /\ pc = "done" => (store = Null \/ SameKey(store[1], pr))

\* C10 - a matching incomplete session is reused and never reset: in a run
\* that resumed the record it loaded, the run's session starts as that record,
\* and at every later point the record's processedFiles and allComments are a
\* prefix of the session's, in memory and in the progress file.
ExtendsLoaded(p) ==
    /\ SameKey(p, pr)
    /\ IsPrefix(loaded[1].processedFiles, p.processedFiles)
    /\ IsPrefix(loaded[1].allComments, p.allComments)

C10_ReusedNeverReset ==
    (Resumed /\ pc # "begin") =>
        /\ pc = "list" => progress = loaded
        /\ progress # Null => ExtendsLoaded(progress[1])
        /\ store # Null /\ ExtendsLoaded(store[1])

\* C10 witness: a resumed run has appended a file to the processedFiles it
\* loaded and saved the session.
C10_Witness ==
    /\ Resumed /\ pc = "batchEnd"
    /\ loaded[1].processedFiles # <<>>
    /\ fetched # <<>>
    /\ store = progress

\* the processedFiles a run would find in the progress file: none when there
\* is no file
DurableProcessed == IF store = Null THEN <<>> ELSE store[1].processedFiles

\* the scheduler is between setting up its session and returning
InScheduler == pc \in {"file", "fileSave", "batchEnd", "delay", "finish"}

\* C11 - crash-recovery granularity: at every point of a scheduler run in which
\* no checkpoint read, write or delete has failed, the processedFiles of the
\* progress file equals the in-memory processedFiles or lacks only its most
\* recently appended identifier.
C11_LosesAtMostOne ==
    (ioFailures = 0 /\ (InScheduler \/ (pc = "list" /\ Resumed))) =>
        LET mem == progress[1].processedFiles
        IN  \/ DurableProcessed = mem
            \/ /\ mem # <<>>
               /\ DurableProcessed = SubSeq(mem, 1, Len(mem) - 1)

\* C11 witness: the second file of a batch has been appended in memory and
\* its checkpoint write has not happened yet.
C11_Witness ==
    /\ pc = "fileSave" /\ ioFailures = 0
    /\ Len(progress[1].processedFiles) = 2
    /\ DurableProcessed = SubSeq(progress[1].processedFiles, 1, 1)

\* the files a run that was handed the record rec by loadProgress has to
\* process, given the listing it received
ExpectedFetched(rec) ==
    LET worklist == Worklist(files, localTesting)
        notDone(f) == f \notin Range(rec[1].processedFiles)
    IN  IF ShouldResume(rec, pr) THEN SelectSeq(worklist, notDone) ELSE worklist

\* the files a diff text carries fragments of, and whether the text starts
\* with the manifest of a resumed session
DiffFiles(text) == {text[n].path : n \in {m \in 1..Len(text) : text[m].kind # "manifest"}}

Seeded(text) == text # <<>> /\ text[1].kind = "manifest"

\* the comments of the run's createReview calls, in order
RECURSIVE SubmittedFrom(_)
SubmittedFrom(n) ==
    IF n > Len(calls) THEN <<>> ELSE calls[n].comments \o SubmittedFrom(n + 1)

\* the run's outputs are those of a run that was handed rec by loadProgress
\* and whose every checkpoint write and delete succeeded
OutputsAsIfLoaded(rec) ==
    /\ (pc = "main" /\ files # <<>>) =>
           /\ fetched = ExpectedFetched(rec)
           /\ DiffFiles(diff) = Range(fetched)
           /\ Seeded(diff) <=> ShouldResume(rec, pr)
    /\ (pc = "done" /\ validatedAs # Null) =>
           SubmittedFrom(1) = IF localTesting THEN <<>> ELSE validatedAs[1]

\* C12 as stated - best-effort checkpointing: whatever checkpoint write, read
\* or delete fails, the run is not aborted and the diff text the scheduler
\* returns and the comments submitted are those of the run in which the
\* operation succeeded, that is, of a run that read the record the progress
\* file held.
C12_AsStated == OutputsAsIfLoaded(startStore)

\* C12 - best-effort checkpointing, amended: whatever checkpoint write or
\* delete fails, the run is not aborted and the diff text the scheduler returns
\* and the comments submitted are those of the run in which it succeeded; a
\* failed read does not abort the run either, but the run proceeds from what
\* loadProgress returned, which is then no session.
C12_BestEffort == OutputsAsIfLoaded(loaded)

\* C12 witness: a run whose read succeeded and one of whose checkpoint writes
\* failed has processed two files and submitted comments.
C12_Witness ==
    /\ pc = "done" /\ ioFailures > 0 /\ loaded = startStore
    /\ Len(fetched) >= 2 /\ Len(calls) >= 1


\* the processedFiles the run's session started from
Base == IF Resumed THEN loaded[1].processedFiles ELSE <<>>

\* the diff text the scheduler has built so far, or has returned, without the
\* manifest that seeds a resumed run
BuiltText ==
    LET text == IF pc = "main" THEN diff ELSE combinedDiff \o batchResults
    IN  IF Seeded(text) THEN Tail(text) ELSE text

\* the placeholder of a file whose processing threw (line 358)
ErrorPlaceholder(f) == <<[kind |-> "error", path |-> f, chunks |-> <<>>]>>

\* what a file yields when its processing does not throw
OwnFragments(f) ==
    CASE f = "a" -> << [kind |-> "chunk", path |-> "a", chunks |-> <<Chunk(<<AddChange(1)>>)>>],
                       [kind |-> "chunk", path |-> "a", chunks |-> <<Chunk(<<AddChange(2)>>)>>] >>
      [] f = "b" -> <<[kind |-> "placeholder", path |-> "b", chunks |-> <<>>]>>
      [] OTHER   -> <<[kind |-> "patch", path |-> f, chunks |-> <<Chunk(<<AddChange(1)>>)>>]>>

\* text is, file by file in the order of fs, each file's own fragments or its
\* error placeholder
RECURSIVE FileByFile(_, _)
FileByFile(text, fs) ==
    IF fs = <<>> THEN text = <<>>
    ELSE \E seg \in {ErrorPlaceholder(Head(fs)), OwnFragments(Head(fs))} :
            /\ IsPrefix(seg, text)
            /\ FileByFile(SubSeq(text, Len(seg) + 1, Len(text)), Tail(fs))

\* the scheduler is running on its session, or has returned from a listing
SchedulerAtWork == InScheduler \/ (pc = "main" /\ files # <<>>)

\* C18 - per-item failure isolation: a file whose processing throws yields
\* the error placeholder and is appended to processedFiles all the same; every
\* other file of the same and of later batches yields its own fragments and
\* its own processedFiles entry, in the order of the worklist; and the
\* scheduler goes on to the end of the worklist.
C18_FailureIsolated ==
    SchedulerAtWork =>
        /\ FileByFile(BuiltText, fetched)
        /\ progress[1].processedFiles = Base \o fetched
        /\ IsPrefix(fetched, filesToProcess)
        /\ pc = "main" => fetched = filesToProcess

\* C18 witness: the scheduler has returned the error placeholder of the first
\* file, whose processing threw, then the fragments of its batch sibling and
\* of the file of the next batch.
C18_Witness ==
    /\ pc = "main" /\ fetched = <<"a", "b", "c">>
    /\ diff = ErrorPlaceholder("a") \o OwnFragments("b") \o OwnFragments("c")
    /\ progress[1].processedFiles = <<"a", "b", "c">>

NoDuplicates(s) == \A m, n \in 1..Len(s) : s[m] = s[n] => m = n

\* C19 - exactly-once progress recording: the files a run has processed are
\* each appended to processedFiles once, in the order processed; unless a
\* checkpoint operation failed the progress file holds every append but the
\* one whose write is next; and no processedFiles, in memory or in the
\* progress file, holds an identifier twice, across resumes.
C19_ExactlyOnce ==
    /\ progress # Null => NoDuplicates(progress[1].processedFiles)
    /\ store # Null => NoDuplicates(store[1].processedFiles)
    /\ NoDuplicates(fetched)
    /\ InScheduler =>
           /\ progress[1].processedFiles = Base \o fetched
           /\ (ioFailures = 0 /\ pc # "fileSave" /\ fetched # <<>>) =>
                  (store # Null /\ store[1].processedFiles = progress[1].processedFiles)

\* C19 witness: a resumed run has appended the two files its session lacked
\* and written the second append to the progress file.
C19_Witness ==
    /\ pc = "batchEnd" /\ Resumed /\ ioFailures = 0
    /\ Len(Base) = 1 /\ Len(fetched) = 2
    /\ store = progress

\* C20 - batch boundary is a join point. At the end of a batch, in the wait
\* and at the end of the loop every file of the batches so far has completed
\* and the set of processedFiles is the session's base and those files,
\* whatever their order; a file of a batch starts only when every file of the
\* earlier batches has completed; the wait is entered only when a batch is
\* left and the loop ends only when none is; and the loop moves to the next
\* batch only through the wait.
JoinedState ==
    LET upTo == Min(i + SchedulerBatchSize, Len(filesToProcess))
    IN  /\ pc \in {"batchEnd", "delay", "finish"} =>
               /\ fetched = SubSeq(filesToProcess, 1, upTo)
               /\ Range(progress[1].processedFiles)
                      = Range(Base) \cup {filesToProcess[n] : n \in 1..upTo}
        /\ pc = "file" => Len(fetched) = i + k - 1
        /\ pc = "fileSave" => Len(fetched) = i + k
        /\ pc = "delay" => i + SchedulerBatchSize < Len(filesToProcess)
        /\ pc = "finish" => i + SchedulerBatchSize >= Len(filesToProcess)

NextBatchOnlyAfterWait == i' > i => (pc = "delay" /\ pc' = "file")

C20_JoinPoint == []JoinedState /\ [][NextBatchOnlyAfterWait]_vars

\* C20 witness: the scheduler waits after a first batch of two files, a third
\* file being left.
C20_Witness ==
    /\ pc = "delay" /\ i = 0
    /\ Len(fetched) = 2 /\ Len(filesToProcess) = 3


\* the fragments the dispatch rule gives a file: one placeholder without a
\* patch, the chunker's fragments above the oversized threshold, one verbatim
\* fragment otherwise
DispatchedFragments(f) ==
    IF PatchLineCount(f) = Null
    THEN <<[kind |-> "placeholder", path |-> f, chunks |-> <<>>]>>
    ELSE IF PatchLineCount(f)[1] > OversizedThreshold
         THEN OversizedFileFragments(f)
         ELSE <<[kind |-> "patch", path |-> f, chunks |-> <<Chunk(<<AddChange(1)>>)>>]>>

RECURSIVE DispatchedText(_)
DispatchedText(fs) ==
    IF fs = <<>> THEN <<>> ELSE DispatchedFragments(Head(fs)) \o DispatchedText(Tail(fs))

\* no file's processing threw in the text
NothingThrown(text) == \A n \in 1..Len(text) : text[n].kind # "error"

\* C21 - per-item dispatch and ordering: when the scheduler returns from a
\* worklist and no file's processing threw, its output is, after the manifest
\* of a resumed run, the dispatched fragments of the files it had to process,
\* in worklist order; and a fresh run on the three-file listing [a oversized,
\* b without patch, c normal] ends with processedFiles = [a, b, c] and
\* completed = true, in memory and, no checkpoint operation having failed, in
\* the progress file.
C21_Dispatch ==
    (pc = "main" /\ files # <<>>) =>
        /\ NothingThrown(diff) =>
               /\ BuiltText = DispatchedText(fetched)
               /\ fetched = ExpectedFetched(loaded)
        /\ (files = FileNames /\ ~localTesting /\ ~Resumed) =>
               /\ progress[1].processedFiles = FileNames
               /\ progress[1].completed
               /\ ioFailures = 0 => store = progress

\* C21 witness: the scheduler has returned from the fresh three-file worklist
\* with two chunk fragments, a placeholder and a verbatim fragment.
C21_Witness ==
    /\ pc = "main" /\ files = FileNames /\ ~localTesting /\ ~Resumed
    /\ Len(diff) = 4
    /\ diff[1].kind = "chunk" /\ diff[2].kind = "chunk"
    /\ diff[3].kind = "placeholder" /\ diff[4].kind = "patch"
    /\ store = progress

\* postReviewComments has made its last createReview call
PostingDone == pc = "done" /\ validComments # <<>> /\ ~localTesting

C26_WaitBetweenBatches ==
    /\ \A n \in 1..(Len(calls) - 1) :
           /\ calls[n].wait > 0
           /\ calls[n].outcome = "ok" => calls[n].wait = BatchDelay
           /\ calls[n].outcome = "rateLimit" => calls[n].wait = RateLimitCooldown
    /\ (PostingDone /\ calls[Len(calls)].outcome = "ok") => calls[Len(calls)].wait = 0

\* postReviewComments has been called with the validated comments and has
\* passed its merge into the stored session (lines 673-679)
PostCalled == pc \in {"submit", "done"} /\ validComments # <<>>

\* C27 - audit record independent of posting: once postReviewComments has been
\* called with the validated comments, and no checkpoint operation of the run
\* has failed, the progress file holds the session of the run's pull request
\* and its allComments holds every one of these comments, whatever the
\* outcomes of the createReview calls and whether the diff came from
\* getIndividualFileDiffs or from getIncrementalChanges.
C27_AuditRecord ==
    (PostCalled /\ ioFailures = 0) =>
        /\ store # Null
        /\ SameKey(store[1], pr)
        /\ Range(validComments) \subseteq Range(store[1].allComments)

\* the files a resumed run found processed by earlier runs
ProcessedEarlier == Range(loaded[1].processedFiles)

\* C28 - the resume manifest is inert: in a resumed run every entry of the
\* parsed diff is a file this run fetched, none is a file processed in an
\* earlier run, and no comment on such a file is returned by
\* validateCommentLine or carried by a createReview call.
C28_ManifestInert ==
    Resumed =>
        /\ \A n \in 1..Len(parsedDiff) :
               /\ parsedDiff[n].to \in Range(fetched)
               /\ parsedDiff[n].to \notin ProcessedEarlier
        /\ validatedAs # Null =>
               \A c \in Range(validatedAs[1]) : c.path \notin ProcessedEarlier
        /\ \A n \in 1..Len(calls) :
               \A c \in Range(calls[n].comments) : c.path \notin ProcessedEarlier

\* C28 witness: a run resumed a session in which a was processed, its diff
\* text started with the manifest, and a comment on c was submitted.
C28_Witness ==
    /\ Resumed
    /\ "a" \in ProcessedEarlier
    /\ diff # <<>> /\ diff[1].kind = "manifest"
    /\ calls # <<>>
    /\ calls[1].comments[1].path = "c"

\* every file of the parsed diff matches one of the patterns
AllExcluded(pd, patterns) ==
    \A n \in 1..Len(pd) : \E m \in 1..Len(patterns) : pd[n].to = patterns[m]

\* main has nothing to analyse: no diff text, no file in the parsed diff, or
\* every file excluded by the patterns
NoUsableDiff(patterns) ==
    diff = <<>> \/ parseDiff(diff) = <<>> \/ AllExcluded(parseDiff(diff), patterns)

\* analysis or submission has started, or main has failed
PastTheGate ==
    \/ pc \in {"analyze", "failed", "post", "submit"}
    \/ comments # <<>> \/ validatedAs # Null \/ calls # <<>>

\* from a diff that is not usable main goes straight to its return
ReturnsEarly ==
    (pc = "main" /\ pc' # "idle" /\ NoUsableDiff(excludePatterns')) =>
        /\ pc' = "done"
        /\ comments' = <<>> /\ validatedAs' = Null /\ calls' = <<>>

\* C29 - clean early return: when the scheduler's enumeration returned no file
\* or threw, its diff text is empty; and when the diff text is empty, parses to
\* no file or has every file excluded, main goes from the parse straight to
\* its return: no analysis call, no submission call, no error exit.
C29_CleanEarlyReturn ==
    /\ [](pc = "main" /\ ~incremental /\ files = <<>> => diff = <<>>)
    /\ [](PastTheGate => ~NoUsableDiff(excludePatterns))
    /\ [][ReturnsEarly]_vars

\* C29 witness: main has returned from a diff whose only file with a patch was
\* excluded by the patterns, without a comment or a call.
C29_Witness ==
    /\ pc = "done"
    /\ parsedDiff # <<>>
    /\ excludePatterns = <<"c">>
    /\ AllExcluded(parsedDiff, excludePatterns)
    /\ comments = <<>> /\ calls = <<>>

\* the progress file's processedFiles and totalFiles
StoredProcessed == IF store = Null THEN {} ELSE Range(store[1].processedFiles)

\* C30 - exclusion filter: a file whose path matches an exclusion pattern of
\* the run never enters the scheduler - it is not fetched, not appended to
\* processedFiles and not counted in totalFiles - is never analysed and no
\* comment on it is submitted; the empty exclusion input excludes no file.
C30_ExcludedNeverScheduled ==
    LET excluded == {f \in Range(FileNames) :
                        \E m \in 1..Len(excludePatterns) : f = excludePatterns[m]}
    IN  /\ \A f \in excluded :
               /\ f \notin Range(fetched)
               /\ (store # Null /\ SameKey(store[1], pr) /\ ~incremental) =>
                      f \notin StoredProcessed
               /\ \A n \in 1..Len(units) :
                      filteredDiff(parsedDiff, excludePatterns)[units[n][1]].to # f
               /\ \A c \in Range(comments) : c.path # f
               /\ \A n \in 1..Len(calls) :
                      \A c \in Range(calls[n].comments) : c.path # f
        /\ excludePatterns = <<"">> => excluded = {}

\* the position of a run in main, counted down from the branch on the event
PhaseRank ==
    CASE pc = "incremental" -> 9
      [] pc = "begin"       -> 8
      [] pc = "list"        -> 7
      [] pc \in {"file", "fileSave", "batchEnd", "delay"} -> 6
      [] pc = "finish"      -> 5
      [] pc = "main"        -> 4
      [] pc = "analyze"     -> 3
      [] pc = "post"        -> 2
      [] pc = "submit"      -> 1
      [] OTHER              -> 0

\* the work left inside the scheduler's loop and the submitter's loop
LoopRank ==
    CASE pc = "file"     -> 4 * (Len(filesToProcess) - (i + k - 1))
      [] pc = "fileSave" -> 4 * (Len(filesToProcess) - (i + k)) + 3
      [] pc = "batchEnd" -> 4 * (Len(filesToProcess) - (i + k)) + 2
      [] pc = "delay"    -> 4 * (Len(filesToProcess) - (i + k)) + 1
      [] pc = "submit"   -> Len(validComments) - postI
      [] OTHER           -> 0

\* an upper bound of the steps a run has left
StepsLeft == 100 * PhaseRank + LoopRank

\* every step of a run but its last one lowers StepsLeft
Decreases == (pc # "idle" /\ pc' # "idle") => StepsLeft' < StepsLeft

RecordedFiles == ProcessedEarlier \cup Range(fetched)

\* f has been sent to the analysis by this run or by an ended run of the same
\* pull request
SentToAnalysis(f) == f \in AnalysedNow \/ <<pr, f>> \in analysedEarlier

\* C32 - large-PR resume reviews everything: when a run that resumed the
\* session of an interrupted run has returned, its scheduler having returned
\* a diff text, every file the session records
\* as processed that has a patch, whose processing did not throw in this run
\* and which the run's patterns do not exclude has been sent to the analysis,
\* by this run or by an earlier run of the same pull request.
C32_ResumeReviewsAll ==
    (pc = "done" /\ Resumed /\ crashes > 0 /\ diff # <<>> /\ NothingThrown(diff)) =>
        \A f \in RecordedFiles :
            (PatchLineCount(f) # Null /\ ~Excluded([to |-> f], excludePatterns)) =>
                SentToAnalysis(f)

\* session.currentBatch when the run's scheduler started
BatchesAtStart == IF Resumed THEN loaded[1].currentBatch ELSE 0

\* the batches the run's scheduler has completed once a batch has ended
BatchesThisRun == (i \div SchedulerBatchSize) + 1

\* C35 - the batch cursor counts batches: after each batch of a scheduler run
\* completes, session.currentBatch is its value at the start of the run plus
\* the number of batches this run has completed: one more per completed batch.
C35_CursorCountsBatches ==
    (pc \in {"delay", "finish"} /\ progress # Null) =>
        progress[1].currentBatch = BatchesAtStart + BatchesThisRun

\* postReviewComments has merged the run's comments into the stored record
MergesComments == pc = "post" /\ validComments # <<>> /\ store' # store

\* C36 - session key isolation of the accumulated comments: the comments of a
\* run are merged only into a stored record whose (repository, PR number) is
\* the run's, and never into a completed session an earlier run left, on the
\* synchronize path as on the others; so every comment of a persisted session
\* was computed by a run for the session's key.
C36_KeyIsolation ==
    [][MergesComments =>
          /\ SameKey(store'[1], pr)
          /\ ~(store = startStore /\ store[1].completed)]_vars

\* the step main takes from the synchronize branch: the progress file is
\* left alone; the comparison returns and main goes on with its text, or it
\* throws and main enters the file-by-file scheduler with no diff yet, or the
\* process is killed
SynchronizeStep ==
    pc = "incremental" =>
        /\ store' = store /\ ioFailures' = ioFailures
        /\ \/ /\ pc' = "main" /\ incremental'
              /\ \E listing \in Comparisons : diff' = IncrementalText(listing)
           \/ pc' = "begin" /\ ~incremental' /\ diff' = <<>>
           \/ pc' = "idle"

\* the scheduler has not run in this run
SchedulerNotEntered ==
    /\ ~InScheduler /\ pc \notin {"begin", "list"}
    /\ loaded = Null /\ progress = Null /\ files = <<>> /\ fetched = <<>>

\* C39 - synchronize fallback: on a synchronize event the diff is built by
\* getIncrementalChanges, which neither reads nor modifies the progress file;
\* the run falls back to the file-by-file scheduler if and only if that call
\* throws; and when the comparison succeeds with no changed file the run ends
\* as a clean early return, without falling back.
C39_SynchronizeFallback ==
    /\ [][SynchronizeStep]_vars
    /\ [](incremental => SchedulerNotEntered)
    /\ []((incremental /\ pc \in {"main", "analyze", "post"}) =>
              store = startStore /\ ioFailures = 0)
    /\ []((incremental /\ diff = <<>> /\ pc # "main") =>
              /\ pc = "done"
              /\ store = startStore
              /\ units = <<>> /\ comments = <<>> /\ calls = <<>>)

\* a comparison without changed files ended the run at main's return, the
\* interrupted session in the progress file left as it was
C39_Witness ==
    /\ incremental /\ diff = <<>> /\ pc = "done"
    /\ store # Null /\ ~store[1].completed /\ store = startStore

\* the number of comments in the batches of the calls that succeeded, from
\* the n-th call on
RECURSIVE CommentsSubmitted(_)
CommentsSubmitted(n) ==
    IF n > Len(calls) THEN 0
    ELSE (IF calls[n].outcome = "ok" THEN Len(calls[n].comments) ELSE 0)
         + CommentsSubmitted(n + 1)

\* a createReview call of the run has thrown
SomeBatchFailed == \E n \in 1..Len(calls) : calls[n].outcome # "ok"

\* C40 - submission success count: while postReviewComments submits, and at
\* its end, successCount is the number of comments in the batches whose
\* createReview call succeeded; at the end it lies between 0 and the number
\* of input comments and equals that number exactly when no batch failed.
C40_SuccessCount ==
    (~localTesting /\ (pc = "submit" \/ (pc = "done" /\ calls # <<>>))) =>
        /\ successCount = CommentsSubmitted(1)
        /\ 0 <= successCount /\ successCount <= Len(validComments)
        /\ pc = "done" => (successCount = Len(validComments) <=> ~SomeBatchFailed)

\* three comments went out in two batches, the first call rejected for the
\* rate limit and the second accepted
C40_Witness ==
    /\ pc = "done" /\ ~localTesting
    /\ Len(validComments) = 3
    /\ Len(calls) = 2
    /\ calls[1].outcome = "rateLimit" /\ calls[2].outcome = "ok"
    /\ successCount = 1

----------------------------------------------------------------------------
(* Claims about the reply parser and the analysis loop (SpecReply) *)

\* unit n's reply has been handled by the loop
Analysed(n) == n < aUnit \/ (n = aUnit /\ apc = "thrown")

\* a content of the shape the prompt asks for: an object with a reviews list
ValidContent(content) ==
    /\ JSONParseReply(content).t = "object"
    /\ JSONParseReply(content).reviews.t = "array"

\* C22 - parser fence robustness: for every analysed unit whose reply is a
\* valid JSON content wrapped in triple-backtick fencing (with the json tag or
\* bare, the fences on their own lines or on the lines of the content),
\* getAIResponse returns what it returns for the content alone.
C22_FenceRobust ==
    \A n \in 1..Len(aReplies) :
        (Analysed(n) /\ ValidContent(aReplies[n].content)) =>
            getAIResponse(ReplyText(aReplies[n])).value
                = getAIResponse(aReplies[n].content).value

\* what the reply text decodes to: JSON.parse of the cleaned text
DecodesTo(text) ==
    IF CleanedResponse(text) = Null THEN SyntaxError
    ELSE JSONParseReply(CleanedResponse(text)[1])

\* C23 - an empty result is not a failure: a reply that decodes to an object
\* whose reviews field is an empty array makes getAIResponse return the empty
\* list without logging an error, the loop adds no comment for the unit and
\* goes on; an undecodable reply makes getAIResponse return null, a different
\* value, with an error logged.
C23_EmptyIsNotFailure ==
    \A n \in 1..Len(aReplies) :
        LET text == ReplyText(aReplies[n])
        IN  /\ (Analysed(n) /\ DecodesTo(text) = Obj(Arr(<<>>))) =>
                  /\ getAIResponse(text) = Returned(Arr(<<>>), FALSE)
                  /\ getAIResponse(text).value # NullValue
                  /\ apc # "thrown" \/ aUnit # n
                  /\ (n = 1 /\ aUnit = 2) => aComments = <<>>
            /\ (Analysed(n) /\ DecodesTo(text) = SyntaxError) =>
                  getAIResponse(text) = Returned(NullValue, TRUE)

\* C23 witness: the first unit's reply was the object with the empty reviews
\* list inside a fenced block, the second unit's reply was undecodable, and
\* the loop has returned without a comment.
C23_Witness ==
    /\ apc = "returned"
    /\ aReplies[1] = [content |-> <<"{", ReviewsKey, "[", "]", "}">>, style |-> "jsonOwnLines"]
    /\ aReplies[2] = [content |-> <<"Sorry">>, style |-> "plain"]
    /\ aComments = <<>>

\* C24 - a single unit's reply never aborts the run: whatever the reply texts
\* (undecodable, empty, an object without reviews, a non-list value),
\* analyzeCode never throws.
C24_NeverAborts == apc # "thrown"

----------------------------------------------------------------------------
(* Claims about the progress file (SpecStore) *)

\* two comments hold the same value in every property
SameComment(c, d) == \A key \in {"body", "path", "line"} : Get(c, key) = Get(d, key)

\* two sessions are structurally equal
SameSession(p, q) ==
    /\ \A key \in {"prNumber", "repository", "processedFiles", "currentBatch",
                    "totalFiles", "timestamp", "completed"} : p[key] = q[key]
    /\ Len(p.allComments) = Len(q.allComments)
    /\ \A n \in 1..Len(p.allComments) : SameComment(p.allComments[n], q.allComments[n])

----------------------------------------------------------------------------
(* Claims about the chunker (SpecChunker) *)

\* the number of hunk headers of a patch text
HeaderCount(patch) == Cardinality({n \in 1..Len(patch) : IsHeader(patch[n])})

\* a chunk minus its three synthetic header lines
Body(chunk) == SubSeq(chunk, 4, Len(chunk))

\* the texts of a sequence concatenated in order, from the n-th on
RECURSIVE ConcatFrom(_, _)
ConcatFrom(texts, n) ==
    IF n > Len(texts) THEN EmptyText
    ELSE Concat(texts[n], ConcatFrom(texts, n + 1))

\* C14 - chunker content preservation: for a patch text with two or more hunk
\* headers, every chunk starts with the three synthetic header lines and the
\* chunks' bodies, concatenated in order, are the patch text: every hunk, in
\* the original order, no line lost, duplicated or reordered.
C14_ContentPreserved ==
    (cpc = "split" /\ HeaderCount(cPatch) >= 2) =>
        /\ cChunks # <<>>
        /\ \A n \in 1..Len(cChunks) :
               /\ Len(cChunks[n]) >= 4
               /\ SubSeq(cChunks[n], 1, 3) = FileHeader("f")
        /\ ConcatFrom([n \in 1..Len(cChunks) |-> Body(cChunks[n])], 1) = cPatch

\* C14 witness: a patch of three hunks came back as two chunks, the first
\* holding two hunks.
C14_Witness ==
    /\ cpc = "split" /\ HeaderCount(cPatch) = 3
    /\ IsHeader(cPatch[1])
    /\ Len(cChunks) = 2
    /\ HeaderCount(Body(cChunks[1])) = 2

\* the patch was taken through the hunk-packing path (line 418 did not return)
PackedByHunks == Len(Hunks(cPatch)) > 1

\* a text that is one hunk: a header line and the lines under it
SingleHunk(text) == IsHeader(text[1]) /\ HeaderCount(text) = 1

\* C15 - chunk size ceiling: for a patch text split by hunks, every chunk
\* returned has, its three synthetic header lines not counted, at most
\* MaxLinesPerChunk lines, unless it consists of a single hunk that alone
\* exceeds the ceiling.
C15_ChunkCeiling ==
    (cpc = "split" /\ PackedByHunks) =>
        \A n \in 1..Len(cChunks) :
            \/ LineCount(Body(cChunks[n])) <= MaxLinesPerChunk
            \/ SingleHunk(Body(cChunks[n]))

\* C16 - fallback selection: for a patch text with no or exactly one hunk
\* header, splitLargeFilePatch returns what splitByLines returns, which is
\* ceil(lineCount / maxLinesPerChunk) chunks.
C16_FallbackSelected ==
    (cpc = "split" /\ HeaderCount(cPatch) <= 1) =>
        /\ cChunks = splitByLines("f", cPatch)
        /\ Len(cChunks) = Ceil(LineCount(cPatch), MaxLinesPerChunk)

\* the line of the patch text at which the body of the c-th chunk starts (the
\* body of a chunk that follows a newline starts with the empty end of the
\* line before)
RECURSIVE BodyStart(_)
BodyStart(c) ==
    IF c = 1 THEN 1 ELSE BodyStart(c - 1) + Len(Body(cChunks[c - 1])) - 1

\* the n-th line of the patch text is in the c-th chunk
InChunk(n, c) ==
    LET at == n - BodyStart(c) + 1
    IN  /\ at \in 1..Len(Body(cChunks[c]))
        /\ Body(cChunks[c])[at] = cPatch[n]

\* the last line of the hunk whose header is line h
HunkEnd(h) ==
    LET later == {n \in (h + 1)..Len(cPatch) : IsHeader(cPatch[n])}
    IN  IF later = {} THEN Len(cPatch)
        ELSE (CHOOSE n \in later : \A m \in later : n <= m) - 1

\* C17 - hunks are never split: for a patch text taken through the
\* hunk-packing path, with or without text before its first hunk header, every
\* hunk header and the lines under it up to the next header are in one chunk,
\* and a hunk of more lines than the ceiling is the only hunk of its chunk.
C17_HunksIntact ==
    (cpc = "split" /\ PackedByHunks) =>
        \A h \in {n \in 1..Len(cPatch) : IsHeader(cPatch[n])} :
            \E c \in 1..Len(cChunks) :
                /\ \A n \in h..HunkEnd(h) : InChunk(n, c)
                /\ HunkEnd(h) - h + 1 > MaxLinesPerChunk
                       => HeaderCount(Body(cChunks[c])) = 1

\* the lines of a fixed window: the chunk without its three header lines and
\* its marker line
WindowLines(chunk) == SubSeq(chunk, 5, Len(chunk))

\* the lines of the windows of chunks, in order, from the n-th chunk on
RECURSIVE WindowsFrom(_, _)
WindowsFrom(chunks, n) ==
    IF n > Len(chunks) THEN <<>>
    ELSE WindowLines(chunks[n]) \o WindowsFrom(chunks, n + 1)

\* C34 - the fixed-window fallback loses nothing: for every patch text the
\* chunks of splitByLines each start with the three header lines and the
\* marker Chunk k/n, k counting the chunks from 1 and n being their number;
\* each window holds at most maxLinesPerChunk lines of the patch, and the
\* windows in order are exactly the lines of the patch.
C34_WindowsLoseNothing ==
    cpc = "split" =>
        LET chunks == splitByLines("f", cPatch)
        IN  /\ Len(cPatch) > 0 => chunks # <<>>
            /\ \A n \in 1..Len(chunks) :
                   /\ Len(chunks[n]) >= 4
                   /\ SubSeq(chunks[n], 1, 3) = FileHeader("f")
                   /\ chunks[n][4] = ChunkMarker(n, Len(chunks))
                   /\ Len(WindowLines(chunks[n])) <= MaxLinesPerChunk
            /\ WindowsFrom(chunks, 1) = cPatch

\* the fallback ran on a patch of more than one window
C34_Witness ==
    /\ cpc = "split"
    /\ Len(cPatch) > MaxLinesPerChunk
    /\ cChunks = splitByLines("f", cPatch)
    /\ Len(cChunks) = 2
    /\ WindowLines(cChunks[2]) # <<>>

----------------------------------------------------------------------------
(* Claims about the scheduler's text (SpecJoin) *)

\* a line that is the diff --git header of a file
IsDiffGitLine(line) == \E n \in 1..Len(FileNames) : line = FileHeader(FileNames[n])[1]

\* the number of diff --git header lines of a text, from its n-th line on
RECURSIVE DiffGitLines(_, _)
DiffGitLines(text, n) ==
    IF n > Len(text) THEN 0
    ELSE (IF IsDiffGitLine(text[n]) THEN 1 ELSE 0) + DiffGitLines(text, n + 1)

\* C33 - fragment boundaries survive batching: in the text the scheduler
\* returns every file's fragment starts at the beginning of a line, within a
\* batch and from one batch to the next, so the text holds as many diff --git
\* header lines as fragments were emitted (one per file of the worklist, no
\* patch of the model being oversized).
C33_FragmentsStartLines ==
    jpc = "returned" => DiffGitLines(jText, 1) = Len(jFiles)

----------------------------------------------------------------------------
(* Claims about the progress commands (SpecCommands) *)

\* main has enumerated no file, sent nothing to the analysis and submitted
\* nothing: the process has not gone past handleProgressCommands
NoReviewWork ==
    /\ pc = "idle" /\ run = MaxRuns - 1
    /\ files = <<>> /\ fetched = <<>>
    /\ units = <<>> /\ comments = <<>> /\ AnalysedNow = {}
    /\ calls = <<>> /\ postedEarlier = {}

\* C37 as stated - progress commands are side-effect-bounded: a process
\* started with --clear-progress, --show-progress or --export-comments
\* enumerates no file, makes no analysis call and no submission;
\* --show-progress and --export-comments leave the record unchanged, and
\* --clear-progress leaves the store with no record.
C37_AsStated ==
    Command(gArgs) # "none" =>
        /\ NoReviewWork
        /\ gpc = "start" => store = gStore
        /\ (gpc # "start" /\ Command(gArgs) \in {"show", "export"}) => store = gStore
        /\ (gpc # "start" /\ Command(gArgs) = "clear") => store = Null

\* C37 amended - as stated, but --clear-progress leaves the store with no
\* record unless the delete of the file failed, and then leaves the record as
\* it was.
C37_SideEffectBounded ==
    Command(gArgs) # "none" =>
        /\ NoReviewWork
        /\ gpc = "start" => store = gStore
        /\ (gpc # "start" /\ Command(gArgs) \in {"show", "export"}) => store = gStore
        /\ (gpc # "start" /\ Command(gArgs) = "clear") =>
               store = IF ioFailures = 0 THEN Null ELSE gStore

\* --clear-progress has removed a record; (the other witness of the claim's
\* case, a command that read a record and left it, is the state with "show")
C37_Witness ==
    /\ gpc = "returned"
    /\ Command(gArgs) = "clear"
    /\ gStore # Null /\ Len(gStore[1].allComments) > 0
    /\ store = Null


====
